---- MODULE Spec2Model ----
(***************************************************************************)
(* Model of the AI Assistant Conversation Dashboard:                       *)
(*   - the timeline builder of display_formatted_conversation,             *)
(*   - the conversation data gateway fetch_conversation_data together with *)
(*     the process-wide MongoDB client handle,                             *)
(*   - the content sanitizer escape_html_preserve_markdown.                *)
(* Text is modelled by TLA+ strings, which TLC treats as sequences of      *)
(* characters (Len, SubSeq and \o apply to them).                          *)
(***************************************************************************)
EXTENDS Integers, Sequences, FiniteSets, TLC

VARIABLES
    messages,       \* display_formatted_conversation: the `messages` argument
    contexts,       \* display_formatted_conversation: the `contexts` argument
    timeline,       \* the local list `timeline` after timeline.sort
    tlPc,           \* "start" before the call, "built" after the sort
    mongo_client,   \* database.py: the module global _mongo_client
    store,          \* content of the three MongoDB collections
    fetchArg,       \* conversation_id of the last fetch_conversation_data call
    fetchOutcome,   \* how that call ended: its return value or a raise
    ioLog,          \* collection reads performed by that call, in order
    text,           \* escape_html_preserve_markdown: the `text` argument
    style,          \* which CODE_BLOCK_STYLE the function sees (styles.py / app.py)
    out1,           \* escape_html_preserve_markdown(text)
    out2,           \* escape_html_preserve_markdown(out1)
    sanPc,          \* "start", "once" (out1 computed), "twice" (out2 computed)
    call,           \* display.py: a formatter call, its function and arguments
    result,         \* what that call returned, or the exception it raised
    callPc,         \* "start" before the call, "done" after it
    dispItems,      \* display_formatted_conversation: the sorted timeline it displays
    emitted,        \* the markup st.markdown received, one entry per displayed item
    displayExc,     \* the exception that ended the display loop, or ""
    dispPc,         \* "start" before the loop, "done" after it
    entry,          \* which script runs: src/src/app.py, the viewer page or app.py
    session,        \* st.session_state of the viewer page
    page            \* what the last run of main() put on the page, and how it ended

timelineVars == <<messages, contexts, timeline, tlPc>>
fetchVars    == <<mongo_client, store, fetchArg, fetchOutcome, ioLog>>
sanVars      == <<text, style, out1, out2, sanPc>>
callVars     == <<call, result, callPc>>
dispVars     == <<dispItems, emitted, displayExc, dispPc>>
mainVars     == <<entry, session, page>>
vars         == <<timelineVars, fetchVars, sanVars, callVars, dispVars, mainVars>>

\* A dictionary key that is missing (dict.get returns its default) and Python's None.
Absent == "<absent>"
None   == "<None>"

Max(a, b) == IF a >= b THEN a ELSE b
Min(a, b) == IF a <= b THEN a ELSE b

(***************************************************************************)
(* Idle values: each specification below drives one component and leaves   *)
(* the variables of the other two at these values.                         *)
(***************************************************************************)
TimelineIdle ==
    /\ messages = <<>> /\ contexts = <<>> /\ timeline = <<>> /\ tlPc = "idle"
FetchIdle ==
    /\ mongo_client = None
    /\ store = [conversations |-> <<>>, analytics |-> <<>>, context |-> <<>>]
    /\ fetchArg = [type |-> "NoneType", repr |-> "None"]
    /\ fetchOutcome = [kind |-> "idle", value |-> <<>>, caught |-> "none"]
    /\ ioLog = <<>>
SanIdle ==
    /\ text = "" /\ style = "str" /\ out1 = "" /\ out2 = "" /\ sanPc = "idle"

CallIdle ==
    /\ call = [fn |-> "none", style |-> "str", pieces |-> <<>>,
               notes |-> <<>>, topics |-> <<>>, keys |-> {}]
    /\ result = [exc |-> "", value |-> ""]
    /\ callPc = "idle"
DispIdle ==
    /\ dispItems = <<>> /\ emitted = <<>> /\ displayExc = "" /\ dispPc = "idle"
BlankPage ==
    [signal |-> "none", fetched |-> FALSE, caught |-> "", uncaught |-> "",
     notices |-> <<>>, overview |-> FALSE, shown |-> 0, rerun |-> FALSE]
MainIdle ==
    /\ entry = "none"
    /\ session = [conversation_id |-> <<>>, conversation_data |-> <<>>]
    /\ page = BlankPage

(***************************************************************************)
(*                         TIMELINE BUILDER                                *)
(***************************************************************************)
\* Bounds of the timeline inputs.
MaxMsgs == 3
MaxCtxs == 1

\* Message timestamps (epoch values) and the ids a message or a context may carry.
Timestamps   == {1, 2}
ContextIds   == {"c1", "c2"}
\* A context entry's own timestamp field: below and above every message timestamp.
CtxOwnStamps == {0, 9}

\* A message dict: 'timestamp' is missing (<<>>) or an integer t (<<t>>);
\* 'context_id' is missing, the empty string (falsy) or an id.
MessageDicts ==
    [timestamp : {<<>>} \cup {<<t>> : t \in Timestamps},
     context_id : ContextIds \cup {Absent, ""}]
ContextDicts == [id : ContextIds, timestamp : CtxOwnStamps]

SeqsUpTo(S, n) == UNION {[1..k -> S] : k \in 0..n}

\* msg.get('timestamp', 0)
MsgTimestamp(msg) == IF msg.timestamp = <<>> THEN 0 ELSE msg.timestamp[1]

\* The truth value of msg.get('context_id'): a missing key gives None, falsy.
HasContextId(msg) == msg.context_id # Absent /\ msg.context_id # ""

\* context_dict = {ctx['id']: ctx for ctx in contexts}: a later entry with the
\* same id replaces an earlier one.
RECURSIVE context_dict(_)
context_dict(ctxs) ==
    IF ctxs = <<>> THEN [i \in {} |-> None]
    ELSE LET rest == context_dict(SubSeq(ctxs, 1, Len(ctxs) - 1))
             last == ctxs[Len(ctxs)]
         IN  [i \in DOMAIN rest \cup {last.id} |->
                 IF i = last.id THEN last ELSE rest[i]]

\* The timestamp a context item is filed under: the referencing message's.
ContextItemTs_own(msg, ctx) == ctx.timestamp
ContextItemTs(msg, ctx) == MsgTimestamp(msg)

\* msg.get('context_id') and msg.get('context_id') in context_dict
ContextResolves(msg, cd) == HasContextId(msg) /\ msg.context_id \in DOMAIN cd

\* The tuples appended for the message at position pos of the input; `pos` stands
\* for the identity of the message object the tuple refers to.
ItemsOf_either(msg, pos, cd) ==
    IF ContextResolves(msg, cd)
    THEN <<[kind |-> "context", ts |-> ContextItemTs(msg, cd[msg.context_id]),
            pos |-> pos, item |-> cd[msg.context_id]]>>
    ELSE <<[kind |-> "message", ts |-> MsgTimestamp(msg), pos |-> pos, item |-> msg]>>
ItemsOf(msg, pos, cd) ==
    <<[kind |-> "message", ts |-> MsgTimestamp(msg), pos |-> pos, item |-> msg]>>
    \o (IF ContextResolves(msg, cd)
        THEN <<[kind |-> "context", ts |-> ContextItemTs(msg, cd[msg.context_id]),
                pos |-> pos, item |-> cd[msg.context_id]]>>
        ELSE <<>>)

\* for msg in messages: timeline.append(...)
RECURSIVE Emit(_, _, _)
Emit(msgs, pos, cd) ==
    IF pos > Len(msgs) THEN <<>>
    ELSE ItemsOf(msgs[pos], pos, cd) \o Emit(msgs, pos + 1, cd)

\* list.sort is stable: an item goes after every item whose key is not greater.
RECURSIVE InsertPoint(_, _, _)
InsertPoint(sorted, key, i) ==
    IF i > Len(sorted) \/ sorted[i].ts > key THEN i
    ELSE InsertPoint(sorted, key, i + 1)

RECURSIVE InsertPoint_unstable(_, _, _)
InsertPoint_unstable(sorted, key, i) ==
    IF i > Len(sorted) \/ sorted[i].ts >= key THEN i
    ELSE InsertPoint_unstable(sorted, key, i + 1)

InsertSorted_unstable(sorted, x) ==
    LET p == InsertPoint_unstable(sorted, x.ts, 1)
    IN  SubSeq(sorted, 1, p - 1) \o <<x>> \o SubSeq(sorted, p, Len(sorted))
InsertSorted(sorted, x) ==
    LET p == InsertPoint(sorted, x.ts, 1)
    IN  SubSeq(sorted, 1, p - 1) \o <<x>> \o SubSeq(sorted, p, Len(sorted))

\* timeline.sort(key=lambda x: x[1])
RECURSIVE SortTimeline(_)
SortTimeline(items) ==
    IF items = <<>> THEN <<>>
    ELSE InsertSorted(SortTimeline(SubSeq(items, 1, Len(items) - 1)),
                      items[Len(items)])

\* The timeline display_formatted_conversation iterates over; with an empty
\* message list the branch is skipped and nothing is built.
BuildTimeline(msgs, ctxs) ==
    IF msgs = <<>> THEN <<>>
    ELSE SortTimeline(Emit(msgs, 1, context_dict(ctxs)))

TimelineInit ==
    /\ messages \in SeqsUpTo(MessageDicts, MaxMsgs)
    /\ contexts \in SeqsUpTo(ContextDicts, MaxCtxs)
    /\ timeline = <<>>
    /\ tlPc = "start"
    /\ FetchIdle /\ SanIdle /\ CallIdle /\ DispIdle /\ MainIdle

display_formatted_conversation ==
    /\ tlPc = "start"
    /\ timeline' = BuildTimeline(messages, contexts)
    /\ tlPc' = "built"
    /\ UNCHANGED <<messages, contexts, fetchVars, sanVars, callVars, dispVars, mainVars>>

TimelineNext == display_formatted_conversation

SpecTimeline == TimelineInit /\ [][TimelineNext]_vars

(***************************************************************************)
(*                     CONVERSATION DATA GATEWAY                           *)
(***************************************************************************)
\* Bound on the length of an analytics record's message_history.
MaxHistory == 2

\* Conversation ids held by the store, and one id the store never holds.
StoreIds  == {"a", "b"}
UnknownId == "zz"

\* An optional value: <<>> is Python's None (or a missing key), <<v>> is v.
Nothing == <<>>
Some(v) == <<v>>

\* Arguments of fetch_conversation_data: strings, and values of other types.
StrArg(i) == [type |-> "str", repr |-> i]
FetchArgs ==
    {StrArg(i) : i \in StoreIds \cup {UnknownId}}
        \cup {[type |-> "int", repr |-> "42"], [type |-> "NoneType", repr |-> "None"]}

\* A message of a message_history, as far as the gateway reads it.
HistoryMessages == [context_id : ContextIds \cup {Absent, ""}]

\* The context collection in its natural order: documents with distinct ids.
ContextCollections ==
    {c \in SeqsUpTo(ContextDicts, Cardinality(ContextIds)) :
        /\ \A i, j \in DOMAIN c : i # j => c[i].id # c[j].id
        /\ \A i \in DOMAIN c : c[i].timestamp = (IF c[i].id = "c1" THEN 0 ELSE 9)}

\* A message_history that is not a list: BSON null (Python's None) and the empty
\* document (an empty dict). The store has no schema; the gateway reads the value
\* with analytics_data.get and does not look at its type.
NotList(v) == <<"not a list", v>>
NotLists   == {NotList("null"), NotList("{}")}
IsList(h)  == Len(h) = 1

\* The values of an analytics document's message_history: missing, a list of
\* messages, or a value that is not a list.
HistoryValues ==
    {Nothing} \cup {Some(m) : m \in SeqsUpTo(HistoryMessages, MaxHistory)} \cup NotLists

\* The store: per conversation id, the key under which the conversations
\* collection holds its document (or none); per conversation id the analytics
\* document (or none), whose message_history key may be missing; the contexts.
Stores ==
    [conversations : {f \in [StoreIds -> {Absent, "id", "conversation_id"}] :
                         f["b"] # "id"},
     analytics : {f \in [StoreIds -> {Nothing}
                            \cup {Some([message_history |-> h]) :
                                    h \in HistoryValues}] :
                     f["b"] \in {Nothing,
                                 Some([message_history |-> Some(<<[context_id |-> "c1"]>>)])}},
     context : ContextCollections]

\* What a call meets outside the program: the first step that raises, if any.
\* "uri": MONGO_URI is not set (or the client cannot be constructed); "ping": the
\* server does not answer the connection test; the others: that collection's
\* read raises. A step the call does not reach cannot fail.
Faults == {"none", "uri", "ping", "conversations", "analytics", "context"}

AllNone == <<Nothing, Nothing, Nothing, Nothing>>

\* initialize_mongodb: returns the existing client; otherwise reads the URI,
\* constructs the client, ASSIGNS the global and only then pings. `raised` tells
\* whether the call ends in "Error creating MongoDB client".
initialize_mongodb(client, fault) ==
    IF client # None THEN [client |-> client, raised |-> FALSE, io |-> <<>>]
    ELSE IF fault = "uri" THEN [client |-> None, raised |-> TRUE, io |-> <<>>]
    ELSE IF fault = "ping"
         THEN [client |-> "unpinged", raised |-> TRUE,
               io |-> <<[op |-> "ping", ids |-> {}]>>]
         ELSE [client |-> "pinged", raised |-> FALSE,
               io |-> <<[op |-> "ping", ids |-> {}]>>]

\* get_database: initialises the client when the global is None.
get_database(client, fault) ==
    IF client = None THEN initialize_mongodb(client, fault)
    ELSE [client |-> client, raised |-> FALSE, io |-> <<>>]

\* app_db.conversations.find_one({"$or": [{"id": cid}, {"conversation_id": cid}]})
FindConversation(st, cid) ==
    IF cid \in StoreIds /\ st.conversations[cid] # Absent
    THEN Some([key |-> st.conversations[cid], value |-> cid])
    ELSE Nothing

\* feedback_db.analytics.find_one({"conversation_id": cid})
FindAnalytics(st, cid) ==
    IF cid \in StoreIds /\ st.analytics[cid] # Nothing
    THEN Some([conversation_id |-> cid,
               message_history |-> st.analytics[cid][1].message_history])
    ELSE Nothing

\* analytics_data.get("message_history", [])
MessageHistoryOf(analytics) ==
    IF analytics.message_history = Nothing THEN Some(<<>>)
    ELSE analytics.message_history

\* {msg.get("context_id") for msg in messages if msg.get("context_id")}
ContextIdsOf_unfiltered(msgs) == {msgs[i].context_id : i \in DOMAIN msgs}
ContextIdsOf(msgs) ==
    {msgs[i].context_id : i \in {j \in DOMAIN msgs : HasContextId(msgs[j])}}

\* list(app_db.context.find({"id": {"$in": ids}}, projection=...))
FindContexts_all(coll, ids) == coll
RECURSIVE FindContexts(_, _)
FindContexts(coll, ids) ==
    IF coll = <<>> THEN <<>>
    ELSE (IF coll[1].id \in ids THEN <<coll[1]>> ELSE <<>>)
             \o FindContexts(Tail(coll), ids)

\* What the function returns when the analytics record is missing.
NoAnalyticsReturn_keepConversation(conv) == <<conv, Nothing, Some(<<>>), Some(<<>>)>>
NoAnalyticsReturn(conv) == AllNone

Read(op, ids) == [op |-> op, ids |-> ids]

\* The body of the try block of fetch_conversation_data. `exc` names the exception
\* that leaves the block ("none" when it returns), `value` the returned tuple.
FetchBody(arg, client, st, fault) ==
    IF arg.type # "str"
    THEN [exc |-> "ValueError", value |-> AllNone, client |-> client, io |-> <<>>]
    ELSE
    LET cid  == arg.repr
        db   == get_database(client, fault)
        rd1  == <<Read("conversations", {cid})>>
        rd2  == <<Read("analytics", {cid})>>
        conv == FindConversation(st, cid)
        ana  == FindAnalytics(st, cid)
    IN
    IF db.raised
    THEN [exc |-> "Exception", value |-> AllNone, client |-> db.client, io |-> db.io]
    ELSE IF fault = "conversations"
    THEN [exc |-> "PyMongoError", value |-> AllNone, client |-> db.client,
          io |-> db.io \o rd1]
    ELSE IF conv = Nothing
    THEN [exc |-> "none", value |-> AllNone, client |-> db.client, io |-> db.io \o rd1]
    ELSE IF fault = "analytics"
    THEN [exc |-> "PyMongoError", value |-> AllNone, client |-> db.client,
          io |-> db.io \o rd1 \o rd2]
    ELSE IF ana = Nothing
    THEN [exc |-> "none", value |-> NoAnalyticsReturn(conv), client |-> db.client,
          io |-> db.io \o rd1 \o rd2]
    ELSE
    LET msgs == MessageHistoryOf(ana[1])
        ids  == ContextIdsOf(msgs[1])
        rd3  == <<Read("context", ids)>>
    IN
    IF msgs = NotList("null")
    THEN [exc |-> "TypeError", value |-> AllNone, client |-> db.client,
          io |-> db.io \o rd1 \o rd2]
    ELSE IF ~IsList(msgs)
    THEN [exc |-> "none", value |-> <<conv, ana, Some(<<>>), msgs>>,
          client |-> db.client, io |-> db.io \o rd1 \o rd2]
    ELSE IF ids = {}
    THEN [exc |-> "none", value |-> <<conv, ana, Some(<<>>), msgs>>,
          client |-> db.client, io |-> db.io \o rd1 \o rd2]
    ELSE IF fault = "context"
    THEN [exc |-> "PyMongoError", value |-> AllNone, client |-> db.client,
          io |-> db.io \o rd1 \o rd2 \o rd3]
    ELSE [exc |-> "none",
          value |-> <<conv, ana, Some(FindContexts(st.context, ids)), msgs>>,
          client |-> db.client, io |-> db.io \o rd1 \o rd2 \o rd3]

\* except Exception as e: return None, None, None, None
HandleException_propagate(body) ==
    IF body.exc = "none"
    THEN [kind |-> "return", value |-> body.value, caught |-> "none"]
    ELSE [kind |-> "raise", value |-> AllNone, caught |-> "none"]
HandleException(body) ==
    IF body.exc = "none"
    THEN [kind |-> "return", value |-> body.value, caught |-> "none"]
    ELSE [kind |-> "return", value |-> AllNone, caught |-> body.exc]

FetchInit ==
    /\ store \in Stores
    /\ mongo_client = None
    /\ fetchArg = [type |-> "NoneType", repr |-> "None"]
    /\ fetchOutcome = [kind |-> "idle", value |-> <<>>, caught |-> "none"]
    /\ ioLog = <<>>
    /\ TimelineIdle /\ SanIdle /\ CallIdle /\ DispIdle /\ MainIdle

fetch_conversation_data ==
    \E arg \in FetchArgs, fault \in Faults :
        LET body == FetchBody(arg, mongo_client, store, fault)
        IN  /\ fetchArg' = arg
            /\ fetchOutcome' = HandleException(body)
            /\ mongo_client' = body.client
            /\ ioLog' = body.io
            /\ UNCHANGED <<store, timelineVars, sanVars, callVars, dispVars, mainVars>>

FetchNext == fetch_conversation_data

SpecFetch == FetchInit /\ [][FetchNext]_vars

(***************************************************************************)
(*                         CONTENT SANITIZER                               *)
(***************************************************************************)
\* A TLA+ string literal cannot hold the backtick: in every text of this model
\* the character @ stands for it (no text of the program holds an @).
BT    == "@"
Fence == BT \o BT \o BT

\* Bound on the number of pieces an input text is made of.
MaxPieces == 4

\* The pieces input texts are concatenated from: the five HTML-significant
\* characters, the markdown markers, a code fence and a letter.
Pieces == {"&", "<", ">", "\"", "'", BT, Fence, "*", "p"}

RECURSIVE TextsUpTo(_)
TextsUpTo(n) ==
    IF n = 0 THEN {""}
    ELSE LET shorter == TextsUpTo(n - 1)
         IN  shorter \cup {t \o q : t \in shorter, q \in Pieces}

\* The two definitions of CODE_BLOCK_STYLE the function is compiled against:
\* "str", the triple-quoted CSS string of src/styles.py (imported by src/utils.py),
\* and "dict", the dictionary of the single-file app.py.
Styles == {"str", "dict"}

\* s[a-1:b] and s[i-1:i] of Python: positions outside the text yield nothing.
Slice(s, a, b) ==
    IF Max(a, 1) > Min(b, Len(s)) THEN "" ELSE SubSeq(s, Max(a, 1), Min(b, Len(s)))
CharAt(s, i) == Slice(s, i, i)
StartsWithAt(s, i, p) ==
    i >= 1 /\ i + Len(p) - 1 <= Len(s) /\ Slice(s, i, i + Len(p) - 1) = p

\* The least position of a set of match positions, or 0: where a left-to-right
\* scan stops.
FirstIn(S) == IF S = {} THEN 0 ELSE CHOOSE j \in S : \A k \in S : j <= k

\* The first position >= i where p occurs in s, or 0.
Find(s, p, i) ==
    FirstIn({j \in Max(i, 1)..(Len(s) - Len(p) + 1) : StartsWithAt(s, j, p)})

Contains(s, p) == Find(s, p, 1) > 0

\* str.replace(old, new) for a one-character old.
RECURSIVE Replace(_, _, _)
Replace(s, old, new) ==
    LET j == Find(s, old, 1)
    IN  IF j = 0 THEN s
        ELSE Slice(s, 1, j - 1) \o new \o Replace(Slice(s, j + 1, Len(s)), old, new)

\* The number of characters from position i on that differ from c.
RunOfNot(s, c, i) ==
    LET j == Find(s, c, i)
    IN  IF j = 0 THEN Max(Len(s) - i + 1, 0) ELSE j - i

\* _code_block_regex = FENCE[\s\S]*?FENCE|BT[^BT]+BT : the last position of the match
\* that starts at i, or 0. The fenced alternative is tried first and closes at
\* the nearest fence; the inline alternative needs at least one character
\* between the backticks.
CodeMatchEnd(s, i) ==
    LET close == IF StartsWithAt(s, i, Fence) THEN Find(s, Fence, i + 3) ELSE 0
        run   == RunOfNot(s, BT, i + 1)
    IN  IF close > 0 THEN close + 2
        ELSE IF CharAt(s, i) = BT /\ run >= 1 /\ CharAt(s, i + 1 + run) = BT
             THEN i + 1 + run
             ELSE 0

\* f"CODE_BLOCK_{len(code_blocks)-1}_PLACEHOLDER"
Placeholder(n) == "CODE_BLOCK_" \o ToString(n) \o "_PLACEHOLDER"

\* processed = re.sub(_code_block_regex, save_code_block, text)
RECURSIVE SaveCodeBlocks(_, _, _, _)
SaveCodeBlocks(s, i, acc, blocks) ==
    LET m == FirstIn({j \in i..Len(s) : CodeMatchEnd(s, j) > 0})
    IN  IF m = 0
        THEN [processed |-> acc \o Slice(s, i, Len(s)), code_blocks |-> blocks]
        ELSE LET e == CodeMatchEnd(s, m)
             IN  SaveCodeBlocks(s, e + 1,
                                acc \o Slice(s, i, m - 1) \o Placeholder(Len(blocks)),
                                Append(blocks, Slice(s, m, e)))

\* The chain of str.replace calls on the non-code text: the second, third and
\* fourth replace a character by itself.
EscapeHtml(s) ==
    Replace(Replace(Replace(Replace(Replace(s, "&", "&amp;"),
        "<", "<"), ">", ">"), "\"", "\""), "'", "&#39;")

\* _html_tag_regex = </?(div|span|p)[^>]*> : the last position of the match that
\* starts at i, or 0.
TagNames == <<"div", "span", "p">>
TagMatchEnd(s, i) ==
    IF CharAt(s, i) # "<" THEN 0
    ELSE LET n == IF CharAt(s, i + 1) = "/" THEN i + 2 ELSE i + 1
             hits == {k \in DOMAIN TagNames : StartsWithAt(s, n, TagNames[k])}
         IN  IF hits = {} THEN 0
             ELSE LET k == CHOOSE k \in hits : \A m \in hits : k <= m
                  IN  Find(s, ">", n + Len(TagNames[k]))

\* processed = re.sub(_html_tag_regex, '', processed)
RECURSIVE StripTags(_, _)
StripTags(s, i) ==
    LET m == FirstIn({j \in i..Len(s) : TagMatchEnd(s, j) > 0})
    IN  IF m = 0 THEN Slice(s, i, Len(s))
        ELSE Slice(s, i, m - 1) \o StripTags(s, TagMatchEnd(s, m) + 1)

\* str.strip()
Whitespace == {" ", "\n", "\t", "\r"}
RECURSIVE LStrip(_)
LStrip(s) ==
    IF s # "" /\ CharAt(s, 1) \in Whitespace THEN LStrip(Slice(s, 2, Len(s))) ELSE s
RECURSIVE RStrip(_)
RStrip(s) ==
    IF s # "" /\ CharAt(s, Len(s)) \in Whitespace
    THEN RStrip(Slice(s, 1, Len(s) - 1)) ELSE s
Strip(s) == LStrip(RStrip(s))

\* html.escape(code), quote=True
HtmlEscape(s) ==
    Replace(Replace(Replace(Replace(Replace(s, "&", "&amp;"),
        "<", "&lt;"), ">", "&gt;"), "\"", "&quot;"), "'", "&#x27;")

\* The markup the dictionary CODE_BLOCK_STYLE of app.py yields.
FencedMarkup(language, code) ==
    "<div style=\"background-color: #f8f9fa; border: 1px solid #e9ecef; "
    \o "border-radius: 4px; margin: 8px 0; padding: 8px 12px; "
    \o "font-family: monospace; white-space: pre-wrap; color: #212529;\">"
    \o "<code class=\"language-" \o language \o "\">" \o HtmlEscape(code)
    \o "</code></div>"
InlineMarkup(code) ==
    "<code style=\"background-color: #f8f9fa; padding: 2px 4px; "
    \o "border-radius: 3px; font-family: monospace;\">" \o HtmlEscape(code)
    \o "</code>"

\* str(e) of the TypeError raised by CODE_BLOCK_STYLE['bg_color'] when
\* CODE_BLOCK_STYLE is a str (the text CPython 3.11 and later give), and of the
\* IndexError raised by code_blocks[index].
TypeErrorText  == "string indices must be integers, not 'str'"
IndexErrorText == "list index out of range"

\* format_code_block for one saved block: the markup, or the exception raised
\* while the f-string is evaluated.
format_code_block(block, sty) ==
    IF sty = "str" THEN [exc |-> TypeErrorText, text |-> ""]
    ELSE IF StartsWithAt(block, 1, Fence)
    THEN LET code_content == Strip(Slice(block, 4, Len(block) - 3))
             nl       == Find(code_content, "\n", 1)
             language == IF nl = 0 THEN code_content
                         ELSE Slice(code_content, 1, nl - 1)
             code     == IF language # ""
                         THEN Strip(Slice(code_content, Len(language) + 1,
                                           Len(code_content)))
                         ELSE code_content
         IN  [exc |-> "", text |-> FencedMarkup(language, code)]
    ELSE [exc |-> "", text |-> InlineMarkup(Slice(block, 2, Len(block) - 1))]

Digits == {"0", "1", "2", "3", "4", "5", "6", "7", "8", "9"}
RECURSIVE DigitRun(_, _)
DigitRun(s, i) ==
    IF i <= Len(s) /\ CharAt(s, i) \in Digits THEN 1 + DigitRun(s, i + 1) ELSE 0
DigitValue(d) == CHOOSE v \in 0..9 : ToString(v) = d
RECURSIVE ParseInt(_)
ParseInt(d) ==
    IF d = "" THEN 0
    ELSE 10 * ParseInt(Slice(d, 1, Len(d) - 1)) + DigitValue(CharAt(d, Len(d)))

\* re.sub(r'CODE_BLOCK_(\d+)_PLACEHOLDER', format_code_block, processed): the
\* text with every placeholder replaced, or the first exception a replacement
\* raises.
PlaceholderDigits(s, i) ==
    LET d == IF StartsWithAt(s, i, "CODE_BLOCK_") THEN DigitRun(s, i + 11) ELSE 0
    IN  IF d > 0 /\ StartsWithAt(s, i + 11 + d, "_PLACEHOLDER") THEN d ELSE 0

RECURSIVE RestoreCodeBlocks(_, _, _, _, _)
RestoreCodeBlocks(s, i, acc, blocks, sty) ==
    LET m == FirstIn({j \in i..Len(s) : PlaceholderDigits(s, j) > 0})
    IN  IF m = 0 THEN [exc |-> "", text |-> acc \o Slice(s, i, Len(s))]
        ELSE LET d     == PlaceholderDigits(s, m)
                 index == ParseInt(Slice(s, m + 11, m + 10 + d))
             IN  IF index >= Len(blocks)
                 THEN [exc |-> IndexErrorText, text |-> ""]
                 ELSE LET r == format_code_block(blocks[index + 1], sty)
                      IN  IF r.exc # "" THEN r
                          ELSE RestoreCodeBlocks(s, m + 11 + d + 12,
                                   acc \o Slice(s, i, m - 1) \o r.text, blocks, sty)

\* The end of the shortest non-empty run of non-newline characters that starts
\* at position i and is followed by the delimiter d (the lazy group (.+?)), or 0.
LazyGroupEnd(s, i, d) ==
    LET k  == FirstIn({j \in i..Len(s) : StartsWithAt(s, j + 1, d)})
        nl == Find(s, "\n", i)
    IN  IF k = 0 \/ (nl > 0 /\ nl <= k) THEN 0 ELSE k

\* A match of  d1(.+?)d1|d2(.+?)d2  starting at i: the delimiter that matched and
\* the end of its group, or end = 0.
EmphasisMatch(s, i, d1, d2) ==
    LET e1 == IF StartsWithAt(s, i, d1)
              THEN LazyGroupEnd(s, i + Len(d1), d1) ELSE 0
        e2 == IF StartsWithAt(s, i, d2)
              THEN LazyGroupEnd(s, i + Len(d2), d2) ELSE 0
    IN  IF e1 > 0 THEN [d |-> d1, end |-> e1]
        ELSE IF e2 > 0 THEN [d |-> d2, end |-> e2]
        ELSE [d |-> "", end |-> 0]

\* re.sub(regex, r'<tag>\1\2</tag>', processed) for the bold and italic regexes.
RECURSIVE Emphasize(_, _, _, _, _)
Emphasize(s, i, d1, d2, tag) ==
    LET at == FirstIn({j \in i..Len(s) : EmphasisMatch(s, j, d1, d2).end > 0})
    IN  IF at = 0 THEN Slice(s, i, Len(s))
        ELSE LET m == EmphasisMatch(s, at, d1, d2)
             IN  Slice(s, i, at - 1)
                     \o "<" \o tag \o ">" \o Slice(s, at + Len(m.d), m.end)
                     \o "</" \o tag \o ">"
                     \o Emphasize(s, m.end + Len(m.d) + 1, d1, d2, tag)

\* The non-code text after the escaping step (the value of `processed` after
\* the chain of replace calls).
EscapedStage(txt) == EscapeHtml(SaveCodeBlocks(txt, 1, "", <<>>).processed)

\* escape_html_preserve_markdown(text), compiled against CODE_BLOCK_STYLE sty.
escape_html_preserve_markdown(txt, sty) ==
    LET saved    == SaveCodeBlocks(txt, 1, "", <<>>)
        escaped  == EscapeHtml(saved.processed)
        stripped == StripTags(escaped, 1)
        restored == RestoreCodeBlocks(stripped, 1, "", saved.code_blocks, sty)
    IN  IF restored.exc # ""
        THEN "Error processing message content: " \o restored.exc
        ELSE Emphasize(Emphasize(restored.text, 1, "**", "__", "strong"),
                       1, "*", "_", "em")

SanInit ==
    /\ text \in TextsUpTo(MaxPieces)
    /\ style \in Styles
    /\ out1 = "" /\ out2 = ""
    /\ sanPc = "start"
    /\ TimelineIdle /\ FetchIdle /\ CallIdle /\ DispIdle /\ MainIdle

\* content = escape_html_preserve_markdown(text)
Sanitize ==
    /\ sanPc = "start"
    /\ out1' = escape_html_preserve_markdown(text, style)
    /\ sanPc' = "once"
    /\ UNCHANGED <<text, style, out2, timelineVars, fetchVars, callVars, dispVars, mainVars>>

\* escape_html_preserve_markdown applied to its own result
Resanitize ==
    /\ sanPc = "once"
    /\ out2' = escape_html_preserve_markdown(out1, style)
    /\ sanPc' = "twice"
    /\ UNCHANGED <<text, style, out1, timelineVars, fetchVars, callVars, dispVars, mainVars>>

SanNext == Sanitize \/ Resanitize

SpecSanitize == SanInit /\ [][SanNext]_vars

(***************************************************************************)
(*                 FOOTNOTE AND WIDGET FORMATTERS                          *)
(***************************************************************************)
\* A TLA+ string literal holds ASCII only: in the texts of this part ~ stands for
\* the back-reference arrow U+21A9 and {gamepad} for the glyph U+1F3AE.
Arrow       == "~"
TopicsGlyph == "{gamepad}"

\* Bounds on the number of pieces of a content and on the length of a topic list.
MaxFnPieces == 3
MaxTopics   == 2

\* The pieces a content is concatenated from: reference tokens in the three
\* forms (keys 1 and i, and a key 2 no mapping holds) and plain text.
TokenPieces == {"[^1]", "[^1^]", "1" \o Arrow, "[^2]", "[^i]"}
PlainPieces == {"p", " ", "\n", "Footnotes"}
FnPieces    == TokenPieces \cup PlainPieces

\* The footnote mapping: per key its text, or Absent when the dict lacks the key.
FootnoteKeys  == {"1", "i"}
FootnoteMaps  ==
    {f \in [FootnoteKeys -> {Absent, "d", "![m", " ![m"}] :
        f["1"] \in {Absent, "d"} /\ f["i"] # "d"}

RECURSIVE Join(_)
Join(ps) == IF ps = <<>> THEN "" ELSE Head(ps) \o Join(Tail(ps))

\* The number of whitespace characters (\s) from position i on.
WsRun(s, i) == FirstIn({j \in i..(Len(s) + 1) : CharAt(s, j) \notin Whitespace}) - i

\* pattern = \[\^([^\]^]+)\^?\]|\d+ARROW : the key and the last position of the
\* match that starts at i, or end = 0. The group takes every character up to the
\* first ] or ^; the digits alternative is tried when the bracket one fails.
FootnoteMatch(s, i) ==
    LET stop == FirstIn({j \in (i + 2)..Len(s) : CharAt(s, j) \in {"]", "^"}})
        d    == DigitRun(s, i)
    IN  IF StartsWithAt(s, i, "[^") /\ stop > i + 2 /\ CharAt(s, stop) = "]"
        THEN [ref |-> Slice(s, i + 2, stop - 1), end |-> stop]
        ELSE IF StartsWithAt(s, i, "[^") /\ stop > i + 2
                /\ StartsWithAt(s, stop, "^]")
        THEN [ref |-> Slice(s, i + 2, stop - 1), end |-> stop + 1]
        ELSE IF d > 0 /\ StartsWithAt(s, i + d, Arrow)
        THEN [ref |-> Replace(Slice(s, i, i + d), Arrow, ""), end |-> i + d]
        ELSE [ref |-> "", end |-> 0]

\* The two wrappers of replace_footnote.
BlockContainer(footnote) ==
    "\n<div style=\"margin: 10px 0; padding: 10px; background-color: #f8f9fa; "
    \o "border-radius: 5px;\">" \o footnote \o "</div>\n"
InlineAnnotation(footnote) ==
    " <span style=\"background-color: #f8f9fa; padding: 4px 8px; "
    \o "border-radius: 3px; border-left: 2px solid #6c757d; margin: 0 4px; "
    \o "font-size: 0.9em;\">(" \o footnote \o ")</span>"

\* footnote.strip().startswith('![')
IsImageFootnote_untrimmed(footnote) == StartsWithAt(footnote, 1, "![")
IsImageFootnote(footnote) == StartsWithAt(Strip(footnote), 1, "![")

\* ref in footnotes
InFootnotes(ref, notes) == ref \in DOMAIN notes /\ notes[ref] # Absent

\* replace_footnote: the replacement of the matched token `token` with key ref.
replace_footnote(token, ref, notes) ==
    IF InFootnotes(ref, notes)
    THEN IF IsImageFootnote(notes[ref]) THEN BlockContainer(notes[ref])
         ELSE InlineAnnotation(notes[ref])
    ELSE token

\* formatted_content = re.sub(pattern, replace_footnote, content)
RECURSIVE SubstituteFootnotes(_, _, _)
SubstituteFootnotes(s, i, notes) ==
    LET m == FirstIn({j \in i..Len(s) : FootnoteMatch(s, j).end > 0})
    IN  IF m = 0 THEN Slice(s, i, Len(s))
        ELSE LET f == FootnoteMatch(s, m)
             IN  Slice(s, i, m - 1)
                    \o replace_footnote(Slice(s, m, f.end), f.ref, notes)
                    \o SubstituteFootnotes(s, f.end + 1, notes)

\* footnotes_pattern = \n\s*Footnotes\s*\n.*$ (DOTALL) matches at position i:
\* a newline, whitespace, the header, and whitespace that holds a newline.
FootnotesSectionAt(s, i) ==
    LET h == i + 1 + WsRun(s, i + 1)
    IN  /\ CharAt(s, i) = "\n"
        /\ StartsWithAt(s, h, "Footnotes")
        /\ \E j \in (h + 9)..(h + 8 + WsRun(s, h + 9)) : CharAt(s, j) = "\n"

\* re.sub(footnotes_pattern, '', formatted_content, flags=re.DOTALL)
RemoveFootnotesSection(s) ==
    LET m == FirstIn({j \in 1..Len(s) : FootnotesSectionAt(s, j)})
    IN  IF m = 0 THEN s ELSE Slice(s, 1, m - 1)

\* if not footnotes
NoFootnotes(notes) == \A k \in DOMAIN notes : notes[k] = Absent

format_footnotes(content, notes) ==
    IF NoFootnotes(notes) THEN content
    ELSE RemoveFootnotesSection(SubstituteFootnotes(content, 1, notes))

\* The markup the dictionary TOPIC_CAPSULE_STYLE of app.py yields.
CapsuleMarkup(topic) ==
    "<span style=\"background-color: #f0f0f0; color: #333333; padding: 2px 8px; "
    \o "border-radius: 12px; border: 1px solid #d0d0d0; margin: 0 2px;\">"
    \o topic \o "</span>"

\* format_topic_capsule, compiled against TOPIC_CAPSULE_STYLE sty: "str" is the
\* triple-quoted CSS string of src/styles.py, "dict" the dictionary of app.py.
format_topic_capsule(topic, sty) ==
    IF sty = "str" THEN [exc |-> TypeErrorText, value |-> ""]
    ELSE [exc |-> "", value |-> CapsuleMarkup(topic)]

\* " ".join(formatted_topics)
RECURSIVE JoinWith(_, _)
JoinWith(ps, sep) ==
    IF ps = <<>> THEN ""
    ELSE IF Len(ps) = 1 THEN ps[1]
    ELSE ps[1] \o sep \o JoinWith(Tail(ps), sep)

get_unity_topics_widget(topics, sty) ==
    IF topics = <<>> THEN [exc |-> "", value |-> ""]
    ELSE LET caps == [i \in DOMAIN topics |-> format_topic_capsule(topics[i], sty)]
         IN  IF \E i \in DOMAIN caps : caps[i].exc # ""
             THEN [exc |-> caps[1].exc, value |-> ""]
             ELSE [exc |-> "", value |->
                      TopicsGlyph \o " "
                          \o JoinWith([i \in DOMAIN caps |-> caps[i].value], " ")]

\* "v2" if 'history' in conversation_details else "v1" if 'message_history' in
\* conversation_details else "Unknown"; `keys` are the keys of the record.
SchemaLabel(keys) ==
    IF "history" \in keys THEN "v2"
    ELSE IF "message_history" \in keys THEN "v1"
    ELSE "Unknown"

\* The calls: one function with its arguments; the fields a function does not
\* take are left empty.
TopicNames == {"Physics", "UI"}
RecordKeys == {"id", "history", "message_history"}
NoNotes    == [k \in FootnoteKeys |-> Absent]
FormatterCall(fn, sty, pieces, notes, topics, keys) ==
    [fn |-> fn, style |-> sty, pieces |-> pieces, notes |-> notes,
     topics |-> topics, keys |-> keys]
Calls ==
    {FormatterCall("format_footnotes", "str", ps, n, <<>>, {}) :
        ps \in SeqsUpTo(FnPieces, MaxFnPieces), n \in FootnoteMaps}
    \cup {FormatterCall("get_unity_topics_widget", sty, <<>>, NoNotes, t, {}) :
            sty \in Styles, t \in SeqsUpTo(TopicNames, MaxTopics)}
    \cup {FormatterCall("schema", "str", <<>>, NoNotes, <<>>, ks) :
            ks \in (SUBSET RecordKeys) \ {{}}}

CallInit ==
    /\ call \in Calls
    /\ result = [exc |-> "", value |-> ""]
    /\ callPc = "start"
    /\ TimelineIdle /\ FetchIdle /\ SanIdle /\ DispIdle /\ MainIdle

CallFootnotes ==
    /\ callPc = "start" /\ call.fn = "format_footnotes"
    /\ result' = [exc |-> "", value |-> format_footnotes(Join(call.pieces), call.notes)]
    /\ callPc' = "done"
    /\ UNCHANGED <<call, timelineVars, fetchVars, sanVars, dispVars, mainVars>>

CallTopicsWidget ==
    /\ callPc = "start" /\ call.fn = "get_unity_topics_widget"
    /\ result' = get_unity_topics_widget(call.topics, call.style)
    /\ callPc' = "done"
    /\ UNCHANGED <<call, timelineVars, fetchVars, sanVars, dispVars, mainVars>>

\* st.write("Schema:", ...) of display_conversation_overview
ShowSchema ==
    /\ callPc = "start" /\ call.fn = "schema"
    /\ result' = [exc |-> "", value |-> SchemaLabel(call.keys)]
    /\ callPc' = "done"
    /\ UNCHANGED <<call, timelineVars, fetchVars, sanVars, dispVars, mainVars>>

CallNext == CallFootnotes \/ CallTopicsWidget \/ ShowSchema

SpecFormat == CallInit /\ [][CallNext]_vars

(***************************************************************************)
(*                       TIMELINE DISPLAY LOOP                             *)
(***************************************************************************)
\* Bound on the number of items of a displayed timeline.
MaxItems == 2

\* Message contents and context data of this part. None holds a boundary marker
\* (--boundary-), so display_message does not enter its system-message branch.
MessageContents == {"p", "a&b", "*p*[^1]"}
ContextData     == {"d", BT \o "c" \o BT}

\* The items of a timeline, as far as display_message reads them. A message:
\* role (Absent when the key is missing), content, footnotes (Nothing when the key
\* is missing) and the unity_topics of its classification. A context: data.
MessageItems ==
    [kind : {"message"}, role : {"user", Absent}, content : MessageContents,
     footnotes : {Nothing, Some([k \in FootnoteKeys |->
                                   IF k = "1" THEN "d" ELSE Absent])},
     topics : SeqsUpTo({"UI"}, 1), data : {""}]
ContextItems ==
    [kind : {"context"}, role : {Absent}, content : {""}, footnotes : {Nothing},
     topics : {<<>>}, data : ContextData]
TimelineItems == MessageItems \cup ContextItems

\* item.get('role', 'unknown').lower() and role.title()
RoleTitle(item) == IF item.role = Absent THEN "Unknown" ELSE "User"

\* if 'footnotes' in item: content = format_footnotes(content, item['footnotes'])
\* (src/display.py only; the display_message of app.py has no such step).
ContentWithFootnotes(item, sty) ==
    IF sty = "str" /\ item.footnotes # Nothing
    THEN format_footnotes(item.content, item.footnotes[1])
    ELSE item.content

\* What display_message embeds in the markup as the body of a message: the
\* content as it is in src/display.py (line 231), the sanitized content in
\* app.py (line 322).
MessageBody_sanitized(item, sty) ==
    escape_html_preserve_markdown(ContentWithFootnotes(item, sty), sty)
MessageBody(item, sty) ==
    IF sty = "str" THEN ContentWithFootnotes(item, sty)
    ELSE escape_html_preserve_markdown(item.content, sty)

\* The outcome of display_message for a message once its topics widget w is
\* built (lines 212-231): the exception of the widget, or the markup. Of the
\* markup the parts that vary with the item are kept: the role in the header,
\* the topics widget and the body; the rest of the f-string is fixed text.
MessageMarkup(w, item, sty) ==
    IF w.exc # "" THEN [exc |-> w.exc, markup |-> <<>>]
    ELSE [exc |-> "",
          markup |-> <<[kind |-> "message", role |-> RoleTitle(item),
                        widget |-> w.value, body |-> MessageBody(item, sty)]>>]

\* display_message(item, item_type): the markup handed to st.markdown, or the
\* exception that leaves the function.
display_message(item, sty) ==
    IF item.kind = "message"
    THEN MessageMarkup(get_unity_topics_widget(item.topics, sty), item, sty)
    ELSE [exc |-> "",
          markup |-> <<[kind |-> "context", role |-> "", widget |-> "",
                        body |-> escape_html_preserve_markdown(item.data, sty)]>>]

\* for item_type, _, item in timeline: display_message(item, item_type)
\* The loop has no handler: the first exception ends it.
RECURSIVE DisplayLoop(_, _, _, _)
\* The loop after display_message returned r for item k.
AfterItem(r, its, k, acc, sty) ==
    IF r.exc # "" THEN [exc |-> r.exc, emitted |-> acc]
    ELSE DisplayLoop(its, k + 1, acc \o r.markup, sty)
DisplayLoop(its, k, acc, sty) ==
    IF k > Len(its) THEN [exc |-> "", emitted |-> acc]
    ELSE AfterItem(display_message(its[k], sty), its, k, acc, sty)

DisplayInit ==
    /\ dispItems \in SeqsUpTo(TimelineItems, MaxItems)
    /\ style \in Styles
    /\ emitted = <<>> /\ displayExc = "" /\ dispPc = "start"
    /\ text = "" /\ out1 = "" /\ out2 = "" /\ sanPc = "idle"
    /\ TimelineIdle /\ FetchIdle /\ CallIdle /\ MainIdle

\* What the page holds once the loop has ended with outcome r.
Rendered(r) == emitted' = r.emitted /\ displayExc' = r.exc

DisplayTimeline ==
    /\ dispPc = "start"
    /\ Rendered(DisplayLoop(dispItems, 1, <<>>, style))
    /\ dispPc' = "done"
    /\ UNCHANGED <<dispItems, timelineVars, fetchVars, sanVars, callVars, mainVars>>

DisplayNext == DisplayTimeline

SpecDisplay == DisplayInit /\ [][DisplayNext]_vars

(***************************************************************************)
(*                    PRESENTATION ORCHESTRATORS                           *)
(***************************************************************************)
\* The three scripts with a main() that looks a conversation up: "package" is
\* src/src/app.py, "viewer" the Conversation Viewer page (both use the gateway of
\* src/src/database.py), "single" the single-file app.py with its own gateway.
Entries == {"package", "viewer", "single"}

\* What st.text_input returns: a string, empty until the user types an id.
TypedIds == StoreIds \cup {UnknownId, ""}

\* The stores of this part: the context collection holds both documents, only
\* conversation "a" may have an analytics record, and its message_history is a
\* list when it has one.
MainStores ==
    {st \in Stores : /\ Len(st.context) = Cardinality(ContextIds)
                     /\ st.context[1].id = "c1"
                     /\ st.analytics["b"] = Nothing
                     /\ st.analytics["a"] # Nothing =>
                            st.analytics["a"][1].message_history \notin NotLists}

\* str(e) of the TypeError raised by len(None), and of the one raised by the call
\* of display_formatted_conversation with four arguments.
NoLenText == "object of type 'NoneType' has no len()"
ArityText ==
    "display_formatted_conversation() takes 3 positional arguments but 4 were given"

\* The gateway call of a script. app.py builds its client at import and its own
\* fetch_conversation_data (app.py:189-230) runs the same lookups; it also shows
\* what it found on the page.
GatewayBody(e, id, client, st, fault) ==
    FetchBody(StrArg(id), IF e = "single" THEN "constructed" ELSE client, st, fault)
GatewayNotices(e, body) ==
    IF e # "single" THEN <<>>
    ELSE IF body.exc # "none" THEN <<"Error: " \o body.exc>>
    ELSE IF body.io # <<>> /\ body.io[Len(body.io)].op = "conversations"
    THEN <<"Debug: Could not find conversation", "Available collections">>
    ELSE <<>>

\* display_formatted_conversation on what the gateway returned: whether the
\* overview is shown (display_conversation_overview returns at once without a
\* conversation record) and how many timeline items are displayed. The messages
\* of a gateway result of this model carry no content, topics or footnotes, so no
\* item of theirs raises.
ShownItems(msgs, ctxs) ==
    IF msgs = <<>> THEN 0
    ELSE Len(msgs)
           + Cardinality({i \in DOMAIN msgs : ContextResolves(msgs[i], context_dict(ctxs))})

\* src/src/app.py main(): the debug expander takes len(contexts) and
\* len(messages) of whatever the gateway returned; every exception is caught and
\* shown as "Error: ...".
main_package(id, body) ==
    LET v == HandleException(body).value
    IN  IF id = "" THEN [BlankPage EXCEPT !.signal = "prompt"]
        ELSE IF v[3] = Nothing \/ v[4] = Nothing
        THEN [BlankPage EXCEPT !.signal = "error", !.fetched = TRUE,
                               !.caught = NoLenText]
        ELSE [BlankPage EXCEPT !.fetched = TRUE, !.overview = (v[1] # Nothing),
                               !.shown = ShownItems(v[4][1], v[3][1])]

\* app.py main(): if analytics_data: ... else: st.error("No conversation found ...")
main_single(submit, id, body) ==
    LET v == HandleException(body).value
    IN  IF ~submit \/ id = "" THEN BlankPage
        ELSE IF v[2] # Nothing
        THEN [BlankPage EXCEPT !.fetched = TRUE,
                               !.notices = GatewayNotices("single", body),
                               !.overview = (v[1] # Nothing),
                               !.shown = ShownItems(v[4][1], v[3][1])]
        ELSE [BlankPage EXCEPT !.signal = "not_found", !.fetched = TRUE,
                               !.notices = GatewayNotices("single", body)]

\* The viewer page's main(): with data in the session state it displays it first,
\* calling display_formatted_conversation with four arguments; otherwise a
\* submitted id is looked up and, when found, stored before st.rerun().
main_viewer_storeAlways(submit, id, body, sess) ==
    IF sess.conversation_data # Nothing
    THEN [BlankPage EXCEPT !.uncaught = ArityText]
    ELSE IF ~submit \/ id = "" THEN BlankPage
    ELSE [BlankPage EXCEPT !.fetched = TRUE, !.rerun = TRUE]
main_viewer(submit, id, body, sess) ==
    LET v == HandleException(body).value
    IN  IF sess.conversation_data # Nothing
        THEN [BlankPage EXCEPT !.uncaught = ArityText]
        ELSE IF ~submit \/ id = "" THEN BlankPage
        ELSE IF v[1] # Nothing \/ v[2] # Nothing
        THEN [BlankPage EXCEPT !.fetched = TRUE, !.rerun = TRUE]
        ELSE [BlankPage EXCEPT !.signal = "not_found", !.fetched = TRUE]

MainInit ==
    /\ store \in MainStores
    /\ mongo_client = None
    /\ fetchArg = [type |-> "NoneType", repr |-> "None"]
    /\ fetchOutcome = [kind |-> "idle", value |-> <<>>, caught |-> "none"]
    /\ ioLog = <<>>
    /\ entry \in Entries
    /\ session = [conversation_id |-> <<>>, conversation_data |-> <<>>]
    /\ page = BlankPage
    /\ TimelineIdle /\ SanIdle /\ CallIdle /\ DispIdle

\* One run of the script's main().
main ==
    \E submit \in BOOLEAN, id \in TypedIds, fault \in Faults :
        LET body == GatewayBody(entry, id, mongo_client, store, fault)
            p    == CASE entry = "package" -> main_package(id, body)
                      [] entry = "single"  -> main_single(submit, id, body)
                      [] entry = "viewer"  -> main_viewer(submit, id, body, session)
        IN  /\ page' = p
            /\ IF p.fetched
               THEN /\ fetchArg' = StrArg(id)
                    /\ fetchOutcome' = HandleException(body)
                    /\ ioLog' = body.io
                    /\ mongo_client' = IF entry = "single" THEN mongo_client
                                       ELSE body.client
               ELSE UNCHANGED <<fetchArg, fetchOutcome, ioLog, mongo_client>>
            /\ session' = IF entry = "viewer" /\ p.rerun
                          THEN [conversation_id |-> Some(id),
                                conversation_data |-> Some(HandleException(body).value)]
                          ELSE session
            /\ UNCHANGED <<store, entry, timelineVars, sanVars, callVars, dispVars>>

MainNext == main

SpecMain == MainInit /\ [][MainNext]_vars

(***************************************************************************)
(*                      SYSTEM MESSAGE FORMATTER                           *)
(***************************************************************************)
\* A TLA+ string literal holds ASCII only: {books} and {bulb} stand for the
\* glyphs U+1F4DA and U+1F4A1 of the metadata markup.
BooksGlyph == "{books}"
BulbGlyph  == "{bulb}"

\* Bound on the number of lines of a text block.
MaxLines == 4

\* part.split('\n')
RECURSIVE SplitLines(_)
SplitLines(s) ==
    LET nl == Find(s, "\n", 1)
    IN  IF nl = 0 THEN <<s>>
        ELSE <<Slice(s, 1, nl - 1)>> \o SplitLines(Slice(s, nl + 1, Len(s)))

\* while lines and not lines[0]: lines.pop(0) / while lines and not lines[-1]:
\* lines.pop()
RECURSIVE DropBlankEnds(_)
DropBlankEnds(lines) ==
    IF lines # <<>> /\ lines[1] = "" THEN DropBlankEnds(Tail(lines))
    ELSE IF lines # <<>> /\ lines[Len(lines)] = ""
    THEN DropBlankEnds(SubSeq(lines, 1, Len(lines) - 1))
    ELSE lines

\* bool(re.match(r'^[#*\-\d]+[.)\s]', line)): a run of one or more marker
\* characters followed by a dot, a parenthesis or white space. The two classes
\* are disjoint, so the run is the maximal one.
MarkerChars == {"#", "*", "-"} \cup Digits
RECURSIVE MarkerRun(_, _)
MarkerRun(s, i) ==
    IF i <= Len(s) /\ CharAt(s, i) \in MarkerChars THEN 1 + MarkerRun(s, i + 1) ELSE 0
is_list_or_heading(line) ==
    LET n == MarkerRun(line, 1)
    IN  n >= 1 /\ CharAt(line, n + 1) \in ({".", ")"} \cup Whitespace)

\* str.endswith
EndsWith(s, p) == Len(s) >= Len(p) /\ Slice(s, Len(s) - Len(p) + 1, Len(s)) = p

\* escape_html_preserve_markdown(sep.join(current_block)), as src/display.py
\* imports it from src/utils.py.
Flushed(current_block, sep) ==
    escape_html_preserve_markdown(JoinWith(current_block, sep), "str")

\* One pass of `for j, line in enumerate(lines)` (lines 101-136) for the line at
\* position j (1-based): what is flushed to cleaned_text, and the new
\* current_block and in_code_block.
LineStep(lines, j, st) ==
    LET line  == lines[j]
        cur   == st.current_block
        fence == StartsWithAt(line, 1, Fence)
        inner == j > 1 /\ j < Len(lines)
        eff   == CASE fence /\ st.in_code_block ->
                        [flush |-> Append(cur, line), sep |-> "\n", tail |-> "",
                         block |-> <<>>, code |-> FALSE]
                   [] fence /\ ~st.in_code_block ->
                        [flush |-> cur, sep |-> " ", tail |-> "",
                         block |-> <<line>>, code |-> TRUE]
                   [] ~fence /\ st.in_code_block ->
                        [flush |-> <<>>, sep |-> " ", tail |-> "",
                         block |-> Append(cur, line), code |-> TRUE]
                   [] ~fence /\ ~st.in_code_block /\ line = "" ->
                        [flush |-> IF st.cleaned_text # ""
                                      /\ ~EndsWith(st.cleaned_text, "</p>")
                                   THEN cur ELSE <<>>,
                         sep |-> " ", tail |-> IF inner THEN "<br>" ELSE "",
                         block |-> <<>>, code |-> FALSE]
                   [] ~fence /\ ~st.in_code_block /\ line # ""
                          /\ is_list_or_heading(line) ->
                        [flush |-> cur, sep |-> " ",
                         tail |-> IF cur # <<>> THEN "<br>" ELSE "",
                         block |-> <<line>>, code |-> FALSE]
                   [] OTHER ->
                        [flush |-> <<>>, sep |-> " ", tail |-> "",
                         block |-> Append(cur, line), code |-> FALSE]
    IN  [cleaned_text  |-> st.cleaned_text
                              \o (IF eff.flush = <<>> THEN ""
                                  ELSE Flushed(eff.flush, eff.sep))
                              \o eff.tail,
         current_block |-> eff.block,
         in_code_block |-> eff.code]

RECURSIVE LinesLoop(_, _, _)
LinesLoop(lines, j, st) ==
    IF j > Len(lines) THEN st ELSE LinesLoop(lines, j + 1, LineStep(lines, j, st))

\* The remaining text (lines 138-143) and the container (144-147) of a text
\* block whose loop ended in state st.
TextBlockMarkup(st) ==
    LET cleaned_text ==
            st.cleaned_text
                \o (IF st.current_block = <<>> THEN ""
                    ELSE Flushed(st.current_block,
                                 IF st.in_code_block THEN "\n" ELSE " "))
    IN  IF cleaned_text = "" THEN <<>>
        ELSE <<"<div style=\"margin: 4px 0;\">" \o cleaned_text \o "</div>">>

\* A text block of format_system_message (lines 87-148): the entries it appends
\* to formatted_parts.
FormatTextBlock(part) ==
    LET stripped == [i \in DOMAIN SplitLines(part) |-> Strip(SplitLines(part)[i])]
    IN  TextBlockMarkup(LinesLoop(DropBlankEnds(stripped), 1,
            [cleaned_text |-> "", current_block |-> <<>>, in_code_block |-> FALSE]))

\* A metadata block (lines 73-85) whose JSON holds the given source and reason.
MetadataMarkup(source, reason) ==
    "<div style=\"margin: 4px 0; padding: 6px; background-color: #f8f9fa; "
    \o "border-left: 3px solid #6c757d; font-size: 0.9em; color: #666;\">"
    \o BooksGlyph \o " <strong>Source:</strong> " \o source \o "<br>"
    \o BulbGlyph \o " <strong>Context:</strong> " \o reason \o "</div>"

\* format_system_message(content) for a content that re.split cuts into one
\* metadata block followed by the free text `interstitial`: text_blocks is
\* ['', '{"source": "docs", "reason": "why"}', interstitial].
format_system_message(interstitial) ==
    LET part == Strip(interstitial)
    IN  JoinWith(<<MetadataMarkup("docs", "why")>>
                     \o (IF part = "" THEN <<>> ELSE FormatTextBlock(part)),
                 "\n")

\* The lines free text is made of: plain lines, a blank line, a line padded with
\* blanks, a heading, a list item and a code fence.
TextLines == {"foo", "bar", "", " baz ", "# top", "1. one", Fence}
SystemMessageCalls ==
    {[fn |-> "format_system_message", style |-> "str", pieces |-> ls,
      notes |-> <<>>, topics |-> <<>>, keys |-> {}] :
        ls \in SeqsUpTo(TextLines, MaxLines)}

SystemMessageInit ==
    /\ call \in SystemMessageCalls
    /\ result = [exc |-> "", value |-> ""]
    /\ callPc = "start"
    /\ TimelineIdle /\ FetchIdle /\ SanIdle /\ DispIdle /\ MainIdle

\* formatted_content = format_system_message(content)
CallSystemMessage ==
    /\ callPc = "start" /\ call.fn = "format_system_message"
    /\ result' = [exc |-> "",
                  value |-> format_system_message(JoinWith(call.pieces, "\n"))]
    /\ callPc' = "done"
    /\ UNCHANGED <<call, timelineVars, fetchVars, sanVars, dispVars, mainVars>>

SystemMessageNext == CallSystemMessage

SpecSystemMessage == SystemMessageInit /\ [][SystemMessageNext]_vars

(***************************************************************************)
(*              SANITIZER ON TAGS AND FENCED CODE BLOCKS                   *)
(***************************************************************************)
\* Bounds on the number of pieces of a text of tags and on the number of code
\* lines of a fenced block.
MaxTagPieces == 3
MaxCodeLines == 2

\* Tags as they arrive from upstream, the two halves of a tag with a blank that
\* can enclose other text, and an inline code span.
TagPieces == {"<div>", "</span>", "<p>", "<details>", "</summary>", "<pre>",
              "<p ", ">", BT \o "c" \o BT}
TagTexts  == {Join(ps) : ps \in SeqsUpTo(TagPieces, MaxTagPieces)}

\* A fenced code block: the fence, an optional language tag on the first line,
\* the code lines, the fence; after some leading text.
LanguageTags == {"", "py"}
CodeLines    == {"x<y", "a&b", "z"}
CodeBodies   == SeqsUpTo(CodeLines, MaxCodeLines) \ {<<>>}
FencedBlock(tag, codeLines) ==
    Fence \o tag \o "\n" \o JoinWith(codeLines, "\n") \o "\n" \o Fence
FencedText(lead, tag, codeLines) == lead \o FencedBlock(tag, codeLines)
Leads == {"", "a "}
FencedTexts ==
    {FencedText(l, t, ls) : l \in Leads, t \in LanguageTags, ls \in CodeBodies}

MarkupInit ==
    /\ text \in TagTexts \cup FencedTexts
    /\ style \in Styles
    /\ out1 = "" /\ out2 = ""
    /\ sanPc = "start"
    /\ TimelineIdle /\ FetchIdle /\ CallIdle /\ DispIdle /\ MainIdle

MarkupNext == Sanitize \/ Resanitize

SpecMarkup == MarkupInit /\ [][MarkupNext]_vars

(***************************************************************************)
(*                       CONVERSATION OVERVIEW                             *)
(***************************************************************************)
\* Bound on the number of messages of an overview.
MaxOverviewMsgs == 2

\* str.lower() on ASCII text
UpperCase == "ABCDEFGHIJKLMNOPQRSTUVWXYZ"
LowerCase == "abcdefghijklmnopqrstuvwxyz"
LowerMap ==
    [ch \in {CharAt(UpperCase, k) : k \in 1..26} |->
        CharAt(LowerCase, Find(UpperCase, ch, 1))]
LowerChar(ch) == IF ch \in DOMAIN LowerMap THEN LowerMap[ch] ELSE ch
RECURSIVE LowerFrom(_, _)
LowerFrom(s, i) ==
    IF i > Len(s) THEN "" ELSE LowerChar(CharAt(s, i)) \o LowerFrom(s, i + 1)
Lower(s) == LowerFrom(s, 1)

\* The messages, as far as the overview reads them: role, and of
\* front_desk_classification_results the sentiment, external_knowledge and
\* unity_topics (Absent or empty when the key is missing).
OverviewMessages ==
    [role : {"user", "User", "assistant", Absent},
     sentiment : {Absent, "Negative"},
     external_knowledge : {Absent, "advanced", "expert"},
     unity_topics : {<<>>, <<"UI">>}]

\* d.get(k, 0) and d[k] = d.get(k, 0) + 1 on a dictionary of counts
CountOf(d, k) == IF k \in DOMAIN d THEN d[k] ELSE 0
Incremented(d, k) ==
    [x \in DOMAIN d \cup {k} |-> CountOf(d, x) + (IF x = k THEN 1 ELSE 0)]

\* sum(role_counts.values())
RECURSIVE SumOver(_, _)
SumOver(d, ks) ==
    IF ks = {} THEN 0
    ELSE LET k == CHOOSE k \in ks : TRUE IN d[k] + SumOver(d, ks \ {k})

\* role = msg.get('role', 'unknown').lower()
RoleOf_raw(msg) == IF msg.role = Absent THEN "unknown" ELSE msg.role
RoleOf(msg) == Lower(IF msg.role = Absent THEN "unknown" ELSE msg.role)
\* classification.get('sentiment', 'neutral').lower()
SentimentOf(msg) == Lower(IF msg.sentiment = Absent THEN "neutral" ELSE msg.sentiment)
\* classification.get('external_knowledge', 'none')
KnowledgeOf(msg) ==
    IF msg.external_knowledge = Absent THEN "none" ELSE msg.external_knowledge

\* One pass of `for msg in messages` (lines 323-335) for a message of the given
\* lower-cased role.
CountOne(counts, role, msg) ==
    IF role = "user"
    THEN [role_counts |-> Incremented(counts.role_counts, role),
          sentiment_counts |->
              Incremented(counts.sentiment_counts, SentimentOf(msg)),
          complexity_counts |->
              Incremented(counts.complexity_counts, KnowledgeOf(msg))]
    ELSE [counts EXCEPT !.role_counts = Incremented(counts.role_counts, role)]

RECURSIVE CountMessages(_, _, _)
CountMessages(msgs, k, counts) ==
    IF k > Len(msgs) THEN counts
    ELSE CountMessages(msgs, k + 1, CountOne(counts, RoleOf(msgs[k]), msgs[k]))

ZeroCounts ==
    [role_counts |-> <<>>,
     sentiment_counts |-> [b \in {"positive", "neutral", "negative"} |-> 0],
     complexity_counts |-> [b \in {"none", "intermediate", "advanced"} |-> 0]]

\* The three st.write lines of the statistics column (lines 338-344): the
\* numbers they show.
StatisticsShown(msgs, counts) ==
    [total     |-> Len(msgs),
     user      |-> CountOf(counts.role_counts, "user"),
     assistant |-> CountOf(counts.role_counts, "assistant"),
     other     |-> SumOver(counts.role_counts, DOMAIN counts.role_counts)
                       - CountOf(counts.role_counts, "user")
                       - CountOf(counts.role_counts, "assistant"),
     positive  |-> counts.sentiment_counts["positive"],
     neutral   |-> counts.sentiment_counts["neutral"],
     negative  |-> counts.sentiment_counts["negative"],
     none      |-> counts.complexity_counts["none"],
     intermediate |-> counts.complexity_counts["intermediate"],
     advanced  |-> counts.complexity_counts["advanced"]]

\* all_topics: the union of the unity_topics of all messages (lines 371-375)
AllTopics(msgs) ==
    UNION {{msgs[k].unity_topics[t] : t \in DOMAIN msgs[k].unity_topics} :
             k \in DOMAIN msgs}

\* What the overview puts on the page for a non-empty record, given the counts
\* of its loop, and the exception that leaves it: format_topic_capsule is
\* called for every topic (line 378).
OverviewShown(msgs, counts) ==
    [exc |-> IF AllTopics(msgs) = {} THEN ""
             ELSE format_topic_capsule(CHOOSE t \in AllTopics(msgs) : TRUE,
                                       "str").exc,
     warning |-> "",
     statistics |-> IF msgs = <<>> THEN <<>> ELSE <<StatisticsShown(msgs, counts)>>,
     counts |-> IF msgs = <<>> THEN <<>> ELSE <<counts>>]

\* display_conversation_overview(conversation_details, messages) of
\* src/display.py: what it puts on the page and the exception that leaves it.
\* `details` tells whether conversation_details is a non-empty dictionary.
display_conversation_overview(details, msgs) ==
    IF ~details
    THEN [exc |-> "", warning |-> "No conversation details found",
          statistics |-> <<>>, counts |-> <<>>]
    ELSE OverviewShown(msgs, CountMessages(msgs, 1, ZeroCounts))

OverviewCalls ==
    {[fn |-> "display_conversation_overview", conversation_details |-> TRUE,
      messages |-> ms] : ms \in SeqsUpTo(OverviewMessages, MaxOverviewMsgs)}
    \cup {[fn |-> "display_conversation_overview", conversation_details |-> FALSE,
           messages |-> ms] : ms \in SeqsUpTo(OverviewMessages, 1)}

OverviewInit ==
    /\ call \in OverviewCalls
    /\ result = [exc |-> "", value |-> ""]
    /\ callPc = "start"
    /\ TimelineIdle /\ FetchIdle /\ SanIdle /\ DispIdle /\ MainIdle

\* display_conversation_overview(conversation, messages)
ShowOverview ==
    /\ callPc = "start" /\ call.fn = "display_conversation_overview"
    /\ result' = display_conversation_overview(call.conversation_details,
                                               call.messages)
    /\ callPc' = "done"
    /\ UNCHANGED <<call, timelineVars, fetchVars, sanVars, dispVars, mainVars>>

OverviewNext == ShowOverview

SpecOverview == OverviewInit /\ [][OverviewNext]_vars

(***************************************************************************)
(*                      SUMMARY PROMPT BUILDER                             *)
(***************************************************************************)
\* Bound on the number of messages of a prompt.
MaxPromptMsgs == 2

\* s repeated n times
RECURSIVE Repeat(_, _)
Repeat(s, n) ==
    IF n = 0 THEN ""
    ELSE LET half == Repeat(s, n \div 2)
         IN  half \o half \o (IF n % 2 = 1 THEN s ELSE "")

\* str.title() on a lower-cased word
UpperMap ==
    [ch \in {CharAt(LowerCase, k) : k \in 1..26} |->
        CharAt(UpperCase, Find(LowerCase, ch, 1))]
Title(word) ==
    IF word = "" THEN ""
    ELSE (IF CharAt(word, 1) \in DOMAIN UpperMap THEN UpperMap[CharAt(word, 1)]
          ELSE CharAt(word, 1)) \o Slice(word, 2, Len(word))

\* len(text) // 4
estimate_tokens(txt) == Len(txt) \div 4

prompt_start ==
    "Please provide a concise summary of the following conversation. "
    \o "Focus on the key points and main topics discussed:\n\n"
TruncationNote ==
    "\n[Note: Some messages were truncated to fit within token limits]"

\* The messages: role and content (Absent when the key is missing); the contents
\* are a short text, and two texts longer than 400 characters.
ShortLen  == 8
LongLen   == 500
LongerLen == 900
PromptMessages ==
    [role : {"user", "ASSISTANT", Absent},
     content : {Absent, Repeat("x", ShortLen), Repeat("x", LongLen),
                Repeat("x", LongerLen)}]

\* The values of max_tokens: two small budgets and the 6000 that
\* summarize_conversation_groq passes.
TokenBudgets == {200, 400, 6000}

\* int(max_tokens * 0.6); for the budgets above the float product is the exact
\* one.
working_token_limit(max_tokens) == (max_tokens * 6) \div 10

\* role.title(), content and message_format of one message (lines 64-67)
PromptRole(msg) == Title(Lower(IF msg.role = Absent THEN "unknown" ELSE msg.role))
PromptContent(msg) == IF msg.content = Absent THEN "No content" ELSE msg.content
message_format(msg) == PromptRole(msg) \o ": " \o PromptContent(msg) \o "\n"

\* The entry appended for a message that does not fit (lines 75-79): a partial
\* one when more than 100 tokens remain, none otherwise.
PartialEntry(msg, remaining_tokens) ==
    IF remaining_tokens > 100
    THEN <<PromptRole(msg) \o ": "
             \o Slice(PromptContent(msg), 1, remaining_tokens * 4) \o "...\n">>
    ELSE <<>>

\* for msg in messages (lines 63-80), from message k on: truncated_messages.
RECURSIVE TruncateLoop(_, _, _, _, _)
TruncateLoop(msgs, k, truncated_messages, total_tokens, limit) ==
    IF k > Len(msgs) THEN truncated_messages
    ELSE IF total_tokens + estimate_tokens(message_format(msgs[k])) <= limit
    THEN TruncateLoop(msgs, k + 1,
                      Append(truncated_messages, message_format(msgs[k])),
                      total_tokens + estimate_tokens(message_format(msgs[k])),
                      limit)
    ELSE truncated_messages \o PartialEntry(msgs[k], limit - total_tokens)

\* final_prompt for the given truncated_messages (lines 82-87)
FinalPrompt(msgs, truncated_messages) ==
    prompt_start \o Join(truncated_messages)
        \o (IF Len(truncated_messages) < Len(msgs) THEN TruncationNote ELSE "")

\* create_conversation_prompt(messages, max_tokens): the prompt returned, and
\* the list truncated_messages it was joined from.
PromptOf(msgs, truncated_messages) ==
    [final_prompt |-> FinalPrompt(msgs, truncated_messages),
     truncated_messages |-> truncated_messages]
create_conversation_prompt(msgs, max_tokens) ==
    PromptOf(msgs, TruncateLoop(msgs, 1, <<>>, estimate_tokens(prompt_start),
                                working_token_limit(max_tokens)))

PromptCalls ==
    {[fn |-> "create_conversation_prompt", messages |-> ms, max_tokens |-> mt] :
        ms \in SeqsUpTo(PromptMessages, MaxPromptMsgs), mt \in TokenBudgets}

PromptInit ==
    /\ call \in PromptCalls
    /\ result = [exc |-> "", value |-> ""]
    /\ callPc = "start"
    /\ TimelineIdle /\ FetchIdle /\ SanIdle /\ DispIdle /\ MainIdle

\* prompt = create_conversation_prompt(messages, max_tokens=...)
CreatePrompt ==
    /\ callPc = "start" /\ call.fn = "create_conversation_prompt"
    /\ result' = [exc |-> "",
                  value |-> create_conversation_prompt(call.messages,
                                                       call.max_tokens)]
    /\ callPc' = "done"
    /\ UNCHANGED <<call, timelineVars, fetchVars, sanVars, dispVars, mainVars>>

PromptNext == CreatePrompt

SpecPrompt == PromptInit /\ [][PromptNext]_vars

(***************************************************************************)
(*                        DATABASE QUERY PAGE                              *)
(***************************************************************************)
\* Bound on the number of full result pages the query matches.
MaxPages == 3

\* limit=1000 of the search_conversations call, also the step of skip
PageLimit == 1000

\* The numbers of documents the query of a session matches.
MatchingCounts == {m \in 0..(MaxPages * PageLimit) : m % 50 = 0}

\* search_conversations(..., limit=1000, skip=skip) on a collection with
\* `matching` matching documents: find(query).skip(skip).limit(limit). A result
\* list is modelled by the position of its first document and its length.
search_conversations(matching, skip) ==
    [skip |-> skip, count |-> Max(0, Min(PageLimit, matching - skip))]

\* One run of the page script (lines 52-142) with session state sess:
\* search_button and clicked tell whether the run was started by the Search
\* button or by the Load More button. all_results is the list of the result
\* lists it was extended with.
QueryRun(sess, search_button, clicked, matching) ==
    LET s1 == IF search_button THEN [skip |-> 0, all_results |-> <<>>] ELSE sess
        results == search_conversations(matching, s1.skip)
        all == Append(s1.all_results, results)
        more == results.count = PageLimit /\ clicked
    IN  IF ~(search_button \/ s1.all_results # <<>>) \/ results.count = 0
        THEN [session |-> s1,
              page |-> [found |-> <<>>, info |-> search_button \/ s1.all_results # <<>>,
                        load_more |-> FALSE, rerun |-> FALSE]]
        ELSE [session |-> [skip |-> IF more THEN s1.skip + PageLimit ELSE s1.skip,
                           all_results |-> all],
              page |-> [found |-> all, info |-> FALSE,
                        load_more |-> results.count = PageLimit, rerun |-> more]]

\* The page before its first run, with the session state of lines 52-55.
QueryInit ==
    /\ entry = "query"
    /\ call \in {[fn |-> "search_conversations", matching |-> m] :
                   m \in MatchingCounts}
    /\ session = [skip |-> 0, all_results |-> <<>>]
    /\ page = [found |-> <<>>, info |-> FALSE, load_more |-> FALSE, rerun |-> FALSE]
    /\ result = [exc |-> "", value |-> ""] /\ callPc = "idle"
    /\ TimelineIdle /\ FetchIdle /\ SanIdle /\ DispIdle

\* The run a press of the Search button starts.
Search ==
    /\ entry = "query" /\ ~page.rerun
    /\ LET r == QueryRun(session, TRUE, FALSE, call.matching)
       IN  session' = r.session /\ page' = r.page
    /\ UNCHANGED <<entry, call, result, callPc, timelineVars, fetchVars, sanVars,
                   dispVars>>

\* The run a press of the Load More button starts; the button is on the page
\* when the last run offered it.
LoadMore ==
    /\ entry = "query" /\ ~page.rerun /\ page.load_more
    /\ LET r == QueryRun(session, FALSE, TRUE, call.matching)
       IN  session' = r.session /\ page' = r.page
    /\ UNCHANGED <<entry, call, result, callPc, timelineVars, fetchVars, sanVars,
                   dispVars>>

\* The run st.rerun() starts.
Rerun ==
    /\ entry = "query" /\ page.rerun
    /\ LET r == QueryRun(session, FALSE, FALSE, call.matching)
       IN  session' = r.session /\ page' = r.page
    /\ UNCHANGED <<entry, call, result, callPc, timelineVars, fetchVars, sanVars,
                   dispVars>>

QueryNext == Search \/ LoadMore \/ Rerun

SpecQuery == QueryInit /\ [][QueryNext]_vars

(***************************************************************************)
(* Claims about the timeline builder.                                      *)
(***************************************************************************)
\* Emission order of two timeline items: input message order, and a message
\* before its own context item.
EmittedBefore(a, b) ==
    \/ a.pos < b.pos
    \/ a.pos = b.pos /\ a.kind = "message" /\ b.kind = "context"

\* C1: the built timeline is ordered by timestamp ascending, a message item being
\* keyed by its message's timestamp, and two items with equal timestamps keep the
\* order in which they were emitted.
C1_TimelineStableOrder ==
    tlPc = "built" =>
        /\ \A i \in DOMAIN timeline :
              timeline[i].kind = "message" =>
                  timeline[i].ts = MsgTimestamp(messages[timeline[i].pos])
        /\ \A i, j \in DOMAIN timeline :
              i < j => /\ timeline[i].ts <= timeline[j].ts
                       /\ timeline[i].ts = timeline[j].ts
                              => EmittedBefore(timeline[i], timeline[j])

\* A built timeline whose input was out of order and held a tie.
C1_Witness ==
    /\ tlPc = "built"
    /\ \E i, j \in DOMAIN messages :
          i < j /\ MsgTimestamp(messages[i]) > MsgTimestamp(messages[j])
    /\ \E i, j \in DOMAIN timeline :
          i < j /\ timeline[i].ts = timeline[j].ts /\ timeline[i].pos < timeline[j].pos

\* C2: a context item carries the timestamp of the message that referenced it,
\* not the context entry's own, and sits immediately after that message.
C2_ContextFollowsItsMessage ==
    tlPc = "built" =>
        \A k \in DOMAIN timeline :
            timeline[k].kind = "context" =>
                /\ timeline[k].ts = MsgTimestamp(messages[timeline[k].pos])
                /\ k > 1
                /\ timeline[k - 1].kind = "message"
                /\ timeline[k - 1].pos = timeline[k].pos

\* A context entry whose own timestamp would sort it elsewhere: it is older than
\* an earlier item of the timeline, or newer than a later one.
C2_Witness ==
    /\ tlPc = "built"
    /\ \E k, m \in DOMAIN timeline :
          /\ timeline[k].kind = "context"
          /\ timeline[m].kind = "message"
          /\ \/ m < k - 1 /\ timeline[k].item.timestamp < timeline[m].ts
             \/ m > k /\ timeline[k].item.timestamp > timeline[m].ts

\* The context entries a message's context_id resolves to.
Resolvable(msg) ==
    HasContextId(msg) /\ \E c \in DOMAIN contexts : contexts[c].id = msg.context_id

ItemsAt(pos, kind) ==
    {k \in DOMAIN timeline : timeline[k].pos = pos /\ timeline[k].kind = kind}

\* C3: one message item per input message, at the message's timestamp (0 when
\* absent); one context item per message whose context_id is set and resolves,
\* holding the entry of that id; none for a context_id that resolves to nothing.
C3_OneItemPerMessageAndResolvedContext ==
    tlPc = "built" =>
        /\ \A k \in DOMAIN timeline : timeline[k].pos \in DOMAIN messages
        /\ \A p \in DOMAIN messages :
              /\ Cardinality(ItemsAt(p, "message")) = 1
              /\ \A k \in ItemsAt(p, "message") :
                    /\ timeline[k].item = messages[p]
                    /\ timeline[k].ts =
                          (IF messages[p].timestamp = <<>> THEN 0
                           ELSE messages[p].timestamp[1])
              /\ Cardinality(ItemsAt(p, "context")) =
                    (IF Resolvable(messages[p]) THEN 1 ELSE 0)
              /\ \A k \in ItemsAt(p, "context") :
                    timeline[k].item.id = messages[p].context_id

\* A timeline built from a message whose context_id resolves, a message whose
\* context_id matches no entry, and a message without a timestamp.
C3_Witness ==
    /\ tlPc = "built"
    /\ \E p \in DOMAIN messages : Resolvable(messages[p])
    /\ \E p \in DOMAIN messages :
          HasContextId(messages[p]) /\ ~Resolvable(messages[p])
    /\ \E p \in DOMAIN messages : messages[p].timestamp = <<>>

(***************************************************************************)
(* Claims about the conversation data gateway.                             *)
(***************************************************************************)
Called == fetchOutcome.kind # "idle"
ReadsOf(log) == [i \in DOMAIN log |-> log[i].op]

\* What the store holds for the id of the last call.
StoreHasConversation ==
    /\ fetchArg.type = "str" /\ fetchArg.repr \in StoreIds
    /\ store.conversations[fetchArg.repr] # Absent
StoreHasAnalytics ==
    /\ fetchArg.type = "str" /\ fetchArg.repr \in StoreIds
    /\ store.analytics[fetchArg.repr] # Nothing
StoredValue == store.analytics[fetchArg.repr][1].message_history
StoredHistory ==
    IF StoredValue = Nothing \/ ~IsList(StoredValue) THEN <<>> ELSE StoredValue[1]
ReferencedContextIds ==
    {StoredHistory[i].context_id : i \in DOMAIN StoredHistory} \ {Absent, ""}

\* C4: fetch_conversation_data never raises; whenever an exception was raised
\* inside it (no URI, failed ping, failing read, bad argument) it returns the
\* all-absent tuple.
C4_FetchNeverRaises ==
    /\ fetchOutcome.kind # "raise"
    /\ (Called /\ fetchOutcome.caught # "none") =>
           fetchOutcome.kind = "return" /\ fetchOutcome.value = AllNone

\* A call that met a failing connection test and returned all-absent.
C4_Witness ==
    /\ fetchOutcome.kind = "return"
    /\ fetchOutcome.caught = "Exception"
    /\ mongo_client = "unpinged"
    /\ fetchOutcome.value = AllNone

\* C5: with no analytics record for the id, all four components are absent, also
\* when the conversation record was found.
C5_NoAnalyticsAllAbsent ==
    (Called /\ fetchArg.type = "str" /\ ~StoreHasAnalytics)
        => fetchOutcome.kind = "return" /\ fetchOutcome.value = AllNone

\* The conversation was found, both reads succeeded, the analytics record is missing.
C5_Witness ==
    /\ Called /\ fetchArg.type = "str"
    /\ fetchOutcome.caught = "none"
    /\ StoreHasConversation
    /\ ~StoreHasAnalytics
    /\ ReadsOf(ioLog) = <<"ping", "conversations", "analytics">>
    /\ fetchOutcome.value = AllNone

\* C6: a conversation id that is not a string makes the call fail with an
\* invalid-argument error surfaced to the caller, before any store I/O.
C6_NonStringIdRaises ==
    (Called /\ fetchArg.type # "str") =>
        fetchOutcome.kind = "raise" /\ ioLog = <<>>

\* The store holds a conversation record and an analytics record for the id of
\* the last call, no context entry matches, and no step of the call raised.
C7_Case ==
    /\ Called /\ fetchArg.type = "str"
    /\ fetchOutcome.caught = "none"
    /\ StoreHasConversation
    /\ StoreHasAnalytics
    /\ \A k \in DOMAIN store.context : store.context[k].id \notin ReferencedContextIds

Sanitized == sanPc \in {"once", "twice"}

HtmlChars == {"&", "<", ">", "\"", "'"}
Entities  == {"&amp;", "&lt;", "&gt;", "&quot;", "&#39;", "&#x27;"}

\* No HTML-significant character of s is left unescaped: s holds no <, >, " or '
\* and every & of s begins an entity.
NoRawHtmlChar(s) ==
    /\ \A c \in HtmlChars \ {"&"} : ~Contains(s, c)
    /\ \A i \in 1..Len(s) :
          CharAt(s, i) = "&" => \E e \in Entities : StartsWithAt(s, i, e)

HasCodeSpan(txt) == SaveCodeBlocks(txt, 1, "", <<>>).code_blocks # <<>>
HasMarker(txt)   == \E c \in {BT, "*", "_"} : Contains(txt, c)

\* C8: outside code blocks and code spans each of & < > " ' is escaped: the
\* non-code text holds none of them unescaped after the escaping step, and
\* neither does the result for a text without code or emphasis markers.
C8_EscapesAllFive ==
    Sanitized =>
        /\ NoRawHtmlChar(EscapedStage(text))
        /\ ~HasMarker(text) => NoRawHtmlChar(out1)

\* An entity whose ampersand was escaped again.
DoubleEscaped(s) ==
    \E e \in Entities : Contains(s, "&amp;" \o SubSeq(e, 2, Len(e)))

\* C9: for a text without code span, sanitizing twice leaves no entity whose
\* ampersand has been escaped again.
C9_NoDoubleEscape ==
    (sanPc = "twice" /\ ~HasCodeSpan(text)) => ~DoubleEscaped(out2)

\* C10: for a text with none of the five HTML-significant characters, sanitizing
\* the sanitized text changes nothing.
C10_Idempotent ==
    (sanPc = "twice" /\ \A c \in HtmlChars : ~Contains(text, c)) => out2 = out1

\* The exception, if any, that leaves the try block of the call on `txt`: the
\* message of the error raised while a code span is put back, or "".
RaisedInside(txt, sty) ==
    LET saved == SaveCodeBlocks(txt, 1, "", <<>>)
    IN  RestoreCodeBlocks(StripTags(EscapeHtml(saved.processed), 1), 1, "",
                          saved.code_blocks, sty).exc

\* C11: whenever a step inside escape_html_preserve_markdown raises, the call
\* returns exactly the literal "Error processing message content", the same
\* string for every failure.
C11_FixedErrorLiteral ==
    (Sanitized /\ RaisedInside(text, style) # "")
        => out1 = "Error processing message content"

\* The saved code spans of a text that are inline spans (one backtick each side).
InlineSpans(txt) ==
    LET blocks == SaveCodeBlocks(txt, 1, "", <<>>).code_blocks
    IN  {blocks[i] : i \in {j \in DOMAIN blocks : ~StartsWithAt(blocks[j], 1, Fence)}}

\* C12: for a text with an inline code span the result holds the span's content
\* inside a code container, its HTML-significant characters escaped exactly once
\* (x<y becomes x&lt;y), and the text around the span is escaped as usual: every
\* & outside the span still becomes &amp;.
C12_InlineCodeSpanEscapedOnce ==
    Sanitized =>
        \A b \in InlineSpans(text) :
            LET code == Slice(b, 2, Len(b) - 1)
            IN  /\ Contains(out1, "<code")
                /\ Contains(out1, ">" \o HtmlEscape(code) \o "</code>")
                /\ StartsWithAt(text, 1, "&" \o b) => StartsWithAt(out1, 1, "&amp;<code")

(***************************************************************************)
(* Claims about the footnote and widget formatters.                        *)
(***************************************************************************)
Returned(fn) == callPc = "done" /\ call.fn = fn

\* A "Footnotes" header: the word followed, after optional blanks, by a line break.
HasFootnotesHeader(s) ==
    \E i \in 1..Len(s) :
        /\ StartsWithAt(s, i, "Footnotes")
        /\ \E j \in (i + 9)..Len(s) :
              /\ CharAt(s, j) = "\n"
              /\ \A k \in (i + 9)..(j - 1) : CharAt(s, k) \in Whitespace

\* C13: with a non-empty footnote mapping the result of format_footnotes holds no
\* "Footnotes" section: the header and all that follows it are removed, also when
\* the header follows other text on its line.
C13_FootnotesSectionRemoved ==
    (Returned("format_footnotes") /\ ~NoFootnotes(call.notes))
        => ~HasFootnotesHeader(result.value)

\* What the claim expects of one piece of the content: the key of a token piece
\* and, per footnote text, whether it is an image reference once trimmed.
KeyOfToken(p) ==
    CASE p = "[^1]" -> "1" [] p = "[^1^]" -> "1" [] p = "1" \o Arrow -> "1"
      [] p = "[^2]" -> "2" [] p = "[^i]" -> "i"
TrimmedStartsWithImage(t) == t \in {"![m", " ![m"}
ExpectedPiece(p, notes) ==
    IF p \in TokenPieces /\ KeyOfToken(p) \in DOMAIN notes
       /\ notes[KeyOfToken(p)] # Absent
    THEN LET t == notes[KeyOfToken(p)]
         IN  IF TrimmedStartsWithImage(t)
             THEN "\n<div style=\"margin: 10px 0; padding: 10px; "
                  \o "background-color: #f8f9fa; border-radius: 5px;\">" \o t
                  \o "</div>\n"
             ELSE " <span style=\"background-color: #f8f9fa; padding: 4px 8px; "
                  \o "border-radius: 3px; border-left: 2px solid #6c757d; "
                  \o "margin: 0 4px; font-size: 0.9em;\">(" \o t \o ")</span>"
    ELSE p
ExpectedContent(ps, notes) == Join([i \in DOMAIN ps |-> ExpectedPiece(ps[i], notes)])

\* C14: in the result of format_footnotes every reference token ([^key], [^key^],
\* digits and arrow) whose key is in the mapping is replaced by the footnote text,
\* in a block container when the trimmed text starts with ![ and in an inline
\* annotation otherwise; every other token and all other text are unchanged. The
\* result is that text, up to the line break where a Footnotes section is cut.
C14_TokensReplaced ==
    Returned("format_footnotes") =>
        LET e == ExpectedContent(call.pieces, call.notes)
            v == result.value
        IN  \/ v = e
            \/ /\ ~NoFootnotes(call.notes)
               /\ Len(v) < Len(e)
               /\ Slice(e, 1, Len(v)) = v
               /\ CharAt(e, Len(v) + 1) = "\n"
               /\ Contains(Slice(e, Len(v) + 1, Len(e)), "Footnotes")

\* A content with a mapped token, an unmapped token and a token whose footnote is
\* an image reference with a leading blank.
C14_Witness ==
    /\ Returned("format_footnotes")
    /\ call.notes["1"] = "d" /\ call.notes["i"] = " ![m"
    /\ \E i, j, k \in DOMAIN call.pieces :
          /\ call.pieces[i] \in TokenPieces /\ KeyOfToken(call.pieces[i]) = "1"
          /\ call.pieces[j] = "[^2]"
          /\ call.pieces[k] = "[^i]"
    /\ Contains(result.value, "(d)</span>")
    /\ Contains(result.value, "[^2]")
    /\ Contains(result.value, "> ![m</div>")

\* Where the capsule of a topic sits in a widget, or 0.
CapsuleAt(widget, topic) == Find(widget, ">" \o topic \o "</span>", 1)

\* C18: get_unity_topics_widget never raises; it returns the empty string for an
\* empty list and otherwise the category glyph followed by one capsule per topic,
\* in input order.
C18_TopicsWidgetTotal ==
    Returned("get_unity_topics_widget") =>
        /\ result.exc = ""
        /\ call.topics = <<>> => result.value = ""
        /\ call.topics # <<>> =>
              /\ StartsWithAt(result.value, 1, TopicsGlyph \o " <span")
              /\ \A i \in DOMAIN call.topics :
                    CapsuleAt(result.value, call.topics[i]) > 0
              /\ \A i, j \in DOMAIN call.topics :
                    (i < j /\ call.topics[i] # call.topics[j]) =>
                        CapsuleAt(result.value, call.topics[i])
                            < CapsuleAt(result.value, call.topics[j])

\* C19: the schema version shown is v2 for a record with a history key, v1 for one
\* with a message_history key, unknown for one with neither, and a record with
\* both keys is not resolved to v1 or v2.
C19_SchemaVersion ==
    Returned("schema") =>
        LET h  == "history" \in call.keys
            mh == "message_history" \in call.keys
        IN  /\ (h /\ ~mh) => result.value = "v2"
            /\ (mh /\ ~h) => result.value = "v1"
            /\ (~h /\ ~mh) => result.value \in {"unknown", "Unknown"}
            /\ (h /\ mh) => result.value \notin {"v1", "v2"}

(***************************************************************************)
(* Claims about the timeline display loop.                                 *)
(***************************************************************************)
\* Rendering the item raises: inside display_message, or inside the sanitizer it
\* calls (which catches the exception itself).
RenderingFails(item, sty) ==
    \/ display_message(item, sty).exc # ""
    \/ item.kind = "context" /\ RaisedInside(item.data, sty) # ""

\* C16: a failure while one item is rendered is confined to that item, which is
\* replaced by the fallback text; every item of the timeline gets its markup.
C16_FailureConfinedToItem ==
    dispPc = "done" =>
        /\ displayExc = ""
        /\ Len(emitted) = Len(dispItems)
        /\ \A k \in DOMAIN dispItems :
              RenderingFails(dispItems[k], style) =>
                  StartsWithAt(emitted[k].body, 1, "Error processing message content")

\* C17: the body of every displayed message is its content after
\* escape_html_preserve_markdown: no content reaches the markup as it came.
C17_ContentSanitized ==
    dispPc = "done" =>
        \A k \in DOMAIN emitted :
            emitted[k].kind = "message" =>
                \E i \in DOMAIN dispItems :
                    /\ dispItems[i].kind = "message"
                    /\ emitted[k].body \in
                          {escape_html_preserve_markdown(dispItems[i].content, style),
                           MessageBody_sanitized(dispItems[i], style)}

(***************************************************************************)
(* Claims about the presentation orchestrators.                            *)
(***************************************************************************)
\* C15: when the gateway returns an absent analytics record, the orchestrator
\* signals "not found" as a normal result, no exception is raised on the way, and
\* neither the overview nor a timeline item is rendered.
C15_NotFoundSignalled ==
    (page.fetched /\ fetchOutcome.value[2] = Nothing) =>
        /\ page.signal = "not_found"
        /\ page.caught = "" /\ page.uncaught = ""
        /\ ~page.overview /\ page.shown = 0

(***************************************************************************)
(* Claims about the reads of the gateway.                                  *)
(***************************************************************************)
\* The collection reads of a call: its log without the connection test.
RECURSIVE StoreReads(_)
StoreReads(log) ==
    IF log = <<>> THEN <<>>
    ELSE (IF log[1].op = "ping" THEN <<>> ELSE <<log[1]>>) \o StoreReads(Tail(log))

ReadOrder == <<"conversations", "analytics", "context">>

\* C20: a call reads the store at most three times, in the order conversation,
\* analytics, contexts; the context collection is read at most once, with the set
\* of distinct non-empty context_id values of the message history, and not at all
\* when that set is empty or when an earlier lookup found nothing.
C20_AtMostThreeOrderedReads ==
    Called =>
        LET r == StoreReads(ioLog)
        IN  /\ Len(r) <= 3
            /\ \A i \in DOMAIN r : r[i].op = ReadOrder[i]
            /\ \A i \in DOMAIN r :
                  r[i].op # "context" => r[i].ids = {fetchArg.repr}
            /\ \A i \in DOMAIN r :
                  r[i].op = "context" =>
                      /\ StoreHasConversation
                      /\ StoreHasAnalytics
                      /\ r[i].ids = ReferencedContextIds
                      /\ r[i].ids # {}

\* A call that made all three reads for a history of two messages of which one
\* has an empty context_id, and a call for a history whose two messages name the
\* same context.
C20_Witness ==
    /\ Called /\ fetchOutcome.caught = "none"
    /\ ReadsOf(StoreReads(ioLog)) = ReadOrder
    /\ StoreHasAnalytics
    /\ Len(StoredHistory) = 2
    /\ \/ \E i \in DOMAIN StoredHistory : StoredHistory[i].context_id = ""
       \/ StoredHistory[1].context_id = StoredHistory[2].context_id
    /\ Cardinality(ioLog[Len(ioLog)].ids) = 1

(***************************************************************************)
(* Claims about the system message formatter.                              *)
(***************************************************************************)
\* The non-blank lines of a text, trimmed as the formatter trims them.
RECURSIVE NonBlankLines(_)
NonBlankLines(ls) ==
    IF ls = <<>> THEN <<>>
    ELSE (IF Strip(ls[1]) = "" THEN <<>> ELSE <<Strip(ls[1])>>)
             \o NonBlankLines(Tail(ls))

\* The texts of ls occur in s from position i on, one after the other.
RECURSIVE OccurInOrder(_, _, _)
OccurInOrder(s, ls, i) ==
    \/ ls = <<>>
    \/ LET at == Find(s, ls[1], i)
       IN  at > 0 /\ OccurInOrder(s, Tail(ls), at + Len(ls[1]))

\* C21: for free text without code fences, every non-blank line appears in the
\* output of format_system_message, in the original order; no paragraph is
\* dropped, in particular not the first one before a blank line.
C21_EveryLineKept ==
    (callPc = "done" /\ call.fn = "format_system_message"
        /\ \A i \in DOMAIN call.pieces : call.pieces[i] # Fence)
    => OccurInOrder(result.value, NonBlankLines(call.pieces), 1)

(***************************************************************************)
(* Claims about the sanitizer on fenced code blocks and on tags.           *)
(***************************************************************************)
\* C22: the language tag of a fenced block is optional: with or without a tag on
\* the first line, every code line of the block appears escaped inside the code
\* container, and only the language tag is used as the label of the container.
C22_LanguageTagOptional ==
    sanPc # "start" =>
        \A l \in Leads, t \in LanguageTags, ls \in CodeBodies :
            text = FencedText(l, t, ls) =>
                Contains(out1, "<code class=\"language-" \o t \o "\">"
                                   \o HtmlEscape(JoinWith(ls, "\n")) \o "</code>")

\* The non-code text after the tag-strip step, and the code saved before it.
StrippedStage(txt) == StripTags(EscapedStage(txt), 1)
SavedBlocks(txt)   == SaveCodeBlocks(txt, 1, "", <<>>).code_blocks

\* The tags the step is to remove, and a tag it is to keep.
StrayTags == {"<div>", "</span>", "<p>", "<details>", "</summary>", "<p >"}
OtherTags == {"<pre>"}

\* C23: the tag-strip step removes every opening and closing div, span, p,
\* details and summary tag from the non-code text, removes no other tag, and
\* leaves every extracted code block or span in place.
C23_TagStrip ==
    sanPc # "start" =>
        /\ \A t \in StrayTags : ~Contains(StrippedStage(text), t)
        /\ \A t \in OtherTags :
              Contains(EscapedStage(text), t) => Contains(StrippedStage(text), t)
        /\ \A n \in 1..Len(SavedBlocks(text)) :
              Contains(StrippedStage(text), Placeholder(n - 1))

(***************************************************************************)
(* Claims about the conversation overview.                                 *)
(***************************************************************************)
\* The messages of the call whose lower-cased role is `user`.
UserMessages ==
    {k \in DOMAIN call.messages :
        Lower(IF call.messages[k].role = Absent THEN "unknown"
              ELSE call.messages[k].role) = "user"}

\* C24: the displayed User, Assistant and Other counts sum to the number of
\* messages; the sentiment and knowledge counts count the messages of role user
\* only, each in exactly one bucket: its lower-cased sentiment (neutral when it
\* has none) and its knowledge level (none when it has none).
C24_OverviewCounts ==
    (callPc = "done" /\ call.fn = "display_conversation_overview"
        /\ result.statistics # <<>>)
    => LET shown  == result.statistics[1]
           counts == result.counts[1]
           users  == UserMessages
           sentiments == [k \in users |-> SentimentOf(call.messages[k])]
           levels     == [k \in users |-> KnowledgeOf(call.messages[k])]
       IN  /\ shown.total = Len(call.messages)
           /\ shown.user + shown.assistant + shown.other = shown.total
           /\ \A k \in users :
                 /\ sentiments[k] \in DOMAIN counts.sentiment_counts
                 /\ levels[k] \in DOMAIN counts.complexity_counts
           /\ \A b \in DOMAIN counts.sentiment_counts :
                 counts.sentiment_counts[b] =
                     Cardinality({k \in users : sentiments[k] = b})
           /\ \A b \in DOMAIN counts.complexity_counts :
                 counts.complexity_counts[b] =
                     Cardinality({k \in users : levels[k] = b})
           /\ shown.negative = counts.sentiment_counts["negative"]
           /\ shown.neutral = counts.sentiment_counts["neutral"]
           /\ shown.advanced = counts.complexity_counts["advanced"]
           /\ shown.none = counts.complexity_counts["none"]

\* An overview of a message of role `User` with a sentiment and a knowledge level
\* outside the three shown, and a message of another role that carries a
\* classification too.
C24_Witness ==
    /\ callPc = "done" /\ call.fn = "display_conversation_overview"
    /\ result.statistics # <<>>
    /\ \E k \in UserMessages :
          /\ call.messages[k].role = "User"
          /\ call.messages[k].sentiment = "Negative"
          /\ call.messages[k].external_knowledge = "expert"
    /\ \E k \in DOMAIN call.messages :
          /\ k \notin UserMessages
          /\ call.messages[k].sentiment # Absent
          /\ call.messages[k].external_knowledge # Absent

(***************************************************************************)
(* Claims about the Conversation Viewer page.                              *)
(***************************************************************************)
\* The session state holds a conversation that an earlier run stored.
Loaded == entry = "viewer" /\ session.conversation_data # Nothing /\ ~page.rerun

\* C25: whenever conversation data is loaded in the session state, a run of the
\* viewer page renders the overview and then every timeline item, and no
\* exception leaves it.
C25_LoadedConversationRendered ==
    Loaded =>
        /\ page.uncaught = ""
        /\ page.overview
        /\ page.shown = ShownItems(session.conversation_data[1][4][1],
                                   session.conversation_data[1][3][1])

IncludedWhole(k) ==
    /\ k <= Len(result.value.truncated_messages)
    /\ result.value.truncated_messages[k] = message_format(call.messages[k])

\* C26: the prompt ends with the truncation note exactly when at least one
\* message was left out or included only in part.
C26_NoteWhenTruncated ==
    (callPc = "done" /\ call.fn = "create_conversation_prompt")
    => (EndsWith(result.value.final_prompt, TruncationNote)
            <=> \E k \in DOMAIN call.messages : ~IncludedWhole(k))

(***************************************************************************)
(* Claims about the Database Query page.                                   *)
(***************************************************************************)
\* The non-empty result lists at skip = 0, 1000, ..., upto.
RECURSIVE PagesUpTo(_, _)
PagesUpTo(matching, upto) ==
    IF upto < 0 THEN <<>>
    ELSE PagesUpTo(matching, upto - PageLimit)
            \o (IF search_conversations(matching, upto).count = 0 THEN <<>>
                ELSE <<search_conversations(matching, upto)>>)

\* C27: once the runs a Search or Load More press started have ended,
\* all_results is the concatenation of the result lists at skip = 0, 1000, ...,
\* current skip, each appended once.
C27_EachPageOnce ==
    (entry = "query" /\ ~page.rerun /\ page.found # <<>>)
    => session.all_results = PagesUpTo(call.matching, session.skip)

(***************************************************************************)
(* Claims about the values the gateway hands out.                          *)
(***************************************************************************)
\* A component that is a list: present, and not one of the values that are not
\* lists.
IsPresentList(c) == c # Nothing /\ IsList(c) /\ c \notin NotLists

\* C29: every value fetch_conversation_data returns is the all-absent tuple or a
\* tuple with both records present and with lists as context and message
\* components, whatever the store holds and whichever step raises.
C29_AllOrNothing ==
    (Called /\ fetchOutcome.kind = "return") =>
        \/ fetchOutcome.value = AllNone
        \/ /\ fetchOutcome.value[1] # Nothing
           /\ fetchOutcome.value[2] # Nothing
           /\ IsPresentList(fetchOutcome.value[3])
           /\ IsPresentList(fetchOutcome.value[4])

(***************************************************************************)
(* Claims about the process-wide client handle.                            *)
(***************************************************************************)
\* C30: _mongo_client is non-null only if the connection test on that client
\* succeeded; a failed ping leaves it null.
C30_HandleOnlyAfterPing ==
    mongo_client # None => mongo_client = "pinged"

====
